---- MODULE Spec2Model ----
(***************************************************************************)
(* A model of the component runtime of the theme                           *)
(* (src/assets/vessel-theme-loader.js): the Component base class with its  *)
(* ref binding, the document-level event delegation registry and the      *)
(* OverflowList element with its reflow; and of debounce                   *)
(* (src/assets/utilities.js).  The row layout the OverflowList measures    *)
(* comes from a template and styles outside src/: it is modelled as one    *)
(* flex row whose boxes wrap when they no longer fit.                      *)
(*                                                                         *)
(* Strings the code takes apart (ref names, `on:` attribute values) are    *)
(* sequences of one-character strings.  An optional attribute is a         *)
(* sequence of length 0 (absent) or 1 (present, holding its value).        *)
(***************************************************************************)
EXTENDS Integers, Sequences, FiniteSets, TLC

(***************************************************************************)
(* Bounds                                                                  *)
(***************************************************************************)
\* Elements of the page: element 1 is a Component, the others lie below it.
NumNodes == 3
\* Idle callbacks one component may have outstanding.
MaxIdle == 1
\* Key/value pairs in the query string of an `on:` attribute value.
MaxPairs == 2
\* Items of the overflow list.
NumItems == 3
\* The widest the list gets.
MaxWidth == 5
\* Reflow callbacks that may be outstanding at once.
MaxPending == 2
\* The time the clock runs to, and the wait a function is debounced with.
MaxTime == 4
Wait == 2
\* Runs of a throttled function.
MaxRuns == 3
\* Entries of componentFiles.
MaxFiles == 3
\* `reflow` listeners on an overflow list.
MaxListeners == 2
\* Items handed to a PaginatedList.
MaxLen == 4
\* Items per page.
MaxPerPage == 3
\* Openings of the quick view that loaded their product or still wait for it.
MaxOpenings == 2
\* POSTs to /cart/add.js awaiting their response at once.
MaxPosts == 3

\* Numbers that need not be whole are held in halves.
Unit == 2

Nodes == 1..NumNodes

(***************************************************************************)
(* The DOM                                                                 *)
(*   parent[n]    the element n is a child of (Doc for a top-level one,    *)
(*                Null for one that was removed from its parent)           *)
(*   inShadow[n]  n is a child of parent[n]'s shadow tree (its declarative *)
(*                template while that root is not attached), not of its    *)
(*                light tree                                               *)
(*   kind[n]      "Component": an instance of Component;                   *)
(*                "TagComponent": an HTMLElement that is no Component      *)
(*                instance and whose tag ends in -component;               *)
(*                "Plain": any other element                               *)
(*   shadowRoot[n]  n has an (open) shadow root attached                   *)
(*   refAttr[n]   the optional `ref` attribute                             *)
(*   onAttr[n]    the optional `on:<kind>` attributes, by event kind       *)
(*   binding      how the host's on:click value was written: its selector, *)
(*                method and data, before they were joined into the text   *)
(* Element ids are in tree order: a smaller id comes earlier in the        *)
(* document.                                                               *)
(***************************************************************************)
VARIABLES parent, inShadow, kind, shadowRoot, refAttr, onAttr, binding

(***************************************************************************)
(* Component instances (fields of each Component element)                  *)
(*   refs[c], requiredRefs[c]   the public fields                          *)
(*   connected[c]   the element is in the document                         *)
(*   idle[c]        idle callbacks requested by connectedCallback and not  *)
(*                  yet run                                                *)
(*   observing[c]   the roots #mutationObserver observes                   *)
(*   records[c]     the mutation records queued for it: [type, target,     *)
(*                  node, added], node being the target of an attributes   *)
(*                  record and the added or removed node of a childList    *)
(*                  record                                                 *)
(***************************************************************************)
VARIABLES refs, requiredRefs, connected, idle, observing, records

(***************************************************************************)
(* The registry and what handlers did                                      *)
(*   initialized    the module-level flag                                  *)
(*   listeners[k]   capturing listeners on the document for event kind k   *)
(*   thrown         the error the last handler let escape (<<>>: none)     *)
(*   event          the event dispatched last (NoEvent: none yet)          *)
(*   calls          the component methods invoked for that event, in order *)
(*   logged         errors caught and logged by the registry for it        *)
(***************************************************************************)
VARIABLES initialized, listeners, thrown, event, calls, logged

(***************************************************************************)
(* An <overflow-list> and its items.  Items are numbered in document       *)
(* order; More is the "more" slot.                                         *)
(*   itemWidth[i]   the rendered width of item i                           *)
(*   moreFirst      in the shadow template the "more" slot comes before    *)
(*                  the default slot                                       *)
(*   containerWidth the width of the list                                  *)
(*   minimumItems   the `minimum-items` attribute as minimumItems reads    *)
(*                  it (<<>>: null)                                         *)
(*   defer          the `defer` attribute is present                       *)
(*   disabled       the `disabled` attribute (<<>>: absent)                *)
(*   slot[i]        the slot attribute of item i: DefaultSlot or           *)
(*                  OverflowSlot                                           *)
(*   visibleElements, overflowingElements                                  *)
(*                  the lists the last reflow computed                     *)
(*   moreHidden     moreSlot.hidden                                        *)
(*   placeholder    hidden, style.width (<<>>: not set, else the pixels)   *)
(*                  and style.display of the placeholder                   *)
(*   overflowCount  the --overflow-count property (<<>>: not set)          *)
(*   counterReset   the overflow-count counter of the list's               *)
(*                  counter-reset (<<>>: not set)                          *)
(*   minimumReached the `minimum-reached` attribute is present             *)
(*   dispatched     the minimumReached details of the OverflowMinimum      *)
(*                  events the last reflow dispatched                      *)
(*   listRefs       #refs is set, and with it the `reflow` listener        *)
(*   stage          where the element is in its start: "new", "idle"       *)
(*                  (idle callback requested), "scheduled" (deferredReflow *)
(*                  scheduled), "started", "removed"                       *)
(*   resizeObserver the ResizeNotifier: observing, and #initialized        *)
(*   mutationObserving  the MutationObserver observes the element          *)
(*   scheduled      #scheduled                                             *)
(*   pending        reflow callbacks handed to schedule() and not yet run  *)
(*   lastDimensions #lastDimensions (NoDimension: null)                    *)
(*   lastOp         what ran last: "reflow" (#reflowItems, whatever asked  *)
(*                  for it), "showAll", "notified" (#handleChange),        *)
(*                  "returned" (#handleChange, returning at once for       *)
(*                  #scheduled), "other" or "none"                         *)
(*   lastHint       the element that reflow was asked to keep visible      *)
(*                  (NoItem: none)                                         *)
(*   listShadow     the element's shadow root: "attached", "template" (a   *)
(*                  template child that connectedCallback will attach)    *)
(*                  or "none"                                              *)
(*   templateParts  the template's parts: "valid", "missing" (one of      *)
(*                  them is absent) or "wrongType"                         *)
(*   reflowListeners  the `reflow` listeners added to the element          *)
(*   reflowsRun     the runs of #reflowItems in the last step that ran it  *)
(*   listThrown     the message of the error the last callback of the      *)
(*                  element threw ("": none)                               *)
(***************************************************************************)
VARIABLES itemWidth, moreFirst, containerWidth, minimumItems, defer, disabled
VARIABLES slot, visibleElements, overflowingElements, moreHidden, placeholder
VARIABLES overflowCount, counterReset, minimumReached, dispatched
VARIABLES listRefs, stage, resizeObserver, mutationObserving
VARIABLES scheduled, pending, lastDimensions, lastOp, lastHint
VARIABLES listShadow, templateParts, reflowListeners, reflowsRun, listThrown

(***************************************************************************)
(* A function made by debounce(fn, wait) and the timers of the page.       *)
(*   definition   which of the two definitions of debounce made it        *)
(*   timeout      the timer `timeout` names, while it has not fired nor    *)
(*                been cleared: <<[due, args]>>, else <<>>                 *)
(*   now          the time                                                 *)
(*   ran          the calls of fn so far: [at, args]                       *)
(*   lastCall     the last call of the debounced function (<<>>: none)     *)
(*   cancelled    cancel() was called since the last call                  *)
(*   typeError    the last operation threw a TypeError                     *)
(***************************************************************************)
VARIABLES definition, timeout, now, ran, lastCall, cancelled, typeError

(***************************************************************************)
(* A function made by throttle(fn, delay); it shares now, ran, cancelled   *)
(* and typeError with the above.                                           *)
(*   throttleDefinition which of the two definitions of throttle made it   *)
(*   throttling   the variables the function closes over: lastCall (first  *)
(*                definition) and inThrottle (second definition)           *)
(*   release      the times at which the timers of the second definition   *)
(*                are due                                                  *)
(*   attempt      the last call of the throttled function: <<[at,          *)
(*                executed]>> (<<>>: none)                                 *)
(***************************************************************************)
VARIABLES throttleDefinition, throttling, release, attempt

(***************************************************************************)
(* The loader of the theme's component files.                              *)
(*   componentFiles the list of file names                                 *)
(*   loads        for each run of loadVesselTheme: state ("new", "awaiting"*)
(*                a script, "done", "failed") and index, the entry of      *)
(*                componentFiles it is at                                  *)
(*   scripts      the script elements appended to the head, in order of    *)
(*                creation: [run, entry, status] with status "loading",    *)
(*                "loaded" or "failed"                                     *)
(*   themeLoaded  for each run, the `vessel-theme-loaded` events it        *)
(*                dispatched                                               *)
(***************************************************************************)
VARIABLES componentFiles, loads, scripts, themeLoaded

(***************************************************************************)
(* A PaginatedList and the array its pages are taken from.  Numbers that   *)
(* need not be whole are held in units of 1/Unit.                          *)
(*   allItems      the array handed to getPageItems                        *)
(*   itemsPerPage  this.itemsPerPage, in units of 1/Unit                   *)
(*   currentPage   this.currentPage                                        *)
(*   totalPages    what getTotalPages(allItems.length) returned (<<>>: not *)
(*                 called since itemsPerPage was set)                      *)
(*   pageItems     for each page asked for since itemsPerPage was set,     *)
(*                 what getPageItems(allItems) returned                    *)
(***************************************************************************)
VARIABLES allItems, itemsPerPage, currentPage, totalPages, pageItems

(***************************************************************************)
(* CastleThemeFeatures on a page with the quick-view modal, its buttons    *)
(* and the newsletter popup.                                               *)
(*   modalActive   the modal has the class `active`                        *)
(*   popupActive   the newsletter popup has the class `active`             *)
(*   bodyOverflow  document.body.style.overflow                            *)
(*   popupShown    localStorage holds newsletter-popup-shown = 'true'      *)
(*   popupTimer    the timeout of initNewsletterPopup has not fired yet    *)
(*   fetches       the products whose /products/<id>.js openQuickView      *)
(*                 awaits, in order of request                             *)
(*   shown         the product the modal was populated with (NoProduct:    *)
(*                 none yet)                                               *)
(*   checked       the variant whose radio input is checked (<<>>: none)   *)
(*   addToCartListeners  for each click listener on the add-to-cart        *)
(*                 button, the product it was set up for                   *)
(*   buttonDisabled  the add-to-cart button is disabled                    *)
(*   posts         the variant ids POSTed to /cart/add.js by the last      *)
(*                 click on the button                                     *)
(*   awaited       the POSTs whose response is awaited                     *)
(*   castleOp      what the last step was                                  *)
(***************************************************************************)
VARIABLES modalActive, popupActive, bodyOverflow, popupShown, popupTimer
VARIABLES fetches, shown, checked, addToCartListeners, buttonDisabled
VARIABLES posts, awaited, castleOp

domVars == <<parent, inShadow, kind, shadowRoot, refAttr, onAttr, binding>>
compVars == <<refs, requiredRefs, connected, idle, observing, records>>
regVars == <<initialized, listeners, thrown, event, calls, logged>>
pageVars == <<itemWidth, moreFirst, containerWidth, minimumItems, defer, disabled>>
slotVars == <<slot, visibleElements, overflowingElements, moreHidden, placeholder,
              overflowCount, counterReset, minimumReached, dispatched>>
observerVars == <<listRefs, stage, resizeObserver, mutationObserving,
                  scheduled, pending, lastDimensions, lastOp, lastHint>>
lifeVars == <<listShadow, templateParts, reflowListeners, reflowsRun, listThrown>>
listVars == <<pageVars, slotVars, observerVars, lifeVars>>
throttleVars == <<throttleDefinition, throttling, release, attempt>>
loaderVars == <<componentFiles, loads, scripts, themeLoaded>>
pagedVars == <<allItems, itemsPerPage, currentPage, totalPages, pageItems>>
castleVars == <<modalActive, popupActive, bodyOverflow, popupShown, popupTimer,
                fetches, shown, checked, addToCartListeners, buttonDisabled,
                posts, awaited, castleOp>>
featureVars == <<pagedVars, castleVars>>
timerVars == <<definition, timeout, now, ran, lastCall, cancelled, typeError,
               throttleVars, loaderVars, featureVars>>
vars == <<domVars, compVars, regVars, listVars, timerVars>>

(***************************************************************************)
(* Strings                                                                 *)
(***************************************************************************)
endsWith(str, suffix) ==
    /\ Len(str) >= Len(suffix)
    /\ SubSeq(str, Len(str) - Len(suffix) + 1, Len(str)) = suffix

startsWith(str, prefix) ==
    /\ Len(str) >= Len(prefix)
    /\ SubSeq(str, 1, Len(prefix)) = prefix

\* The ref names the pages use: two singular names, one of which is also
\* the base of the plural name.
RefNames == { <<"a">>, <<"x">>, <<"x", "[", "]">> }
RefAttrValues == { <<>> } \cup { <<name>> : name \in RefNames }
SingularRefAttrValues == { <<>>, << <<"a">> >>, << <<"x">> >> }

(***************************************************************************)
(* Walking up the tree                                                     *)
(* Nodes are numbers: an element is its id, the document is Doc, the       *)
(* shadow root of host h is ShadowRootOf(h), and Null is JavaScript null.  *)
(***************************************************************************)
Doc == 0
Null == NumNodes + 1
ShadowRootOf(h) == 0 - h
HostOf(root) == 0 - root
IsElement(node) == node \in Nodes
IsShadowRoot(node) == node < 0

\* node.parentNode (Null for the document and for a shadow root)
parentNode(node) ==
    IF IsElement(node)
    THEN IF inShadow[node] THEN ShadowRootOf(parent[node]) ELSE parent[node]
    ELSE Null

getAncestor(node) ==
    IF parentNode(node) # Null THEN parentNode(node)
    ELSE IF IsShadowRoot(node) THEN HostOf(node)
    ELSE Null

\* node instanceof Component
instanceofComponent(node) == IsElement(node) /\ kind[node] = "Component"

\* node.tagName.toLowerCase(): the pages name a Component `c`, another
\* element with a component-like tag `t-component` and a plain element `p`.
tagName(node) ==
    CASE kind[node] = "Component" -> <<"c">>
      [] kind[node] = "TagComponent" ->
            <<"t", "-", "c", "o", "m", "p", "o", "n", "e", "n", "t">>
      [] OTHER -> <<"p">>

RECURSIVE getClosestComponent(_)
getClosestComponent(node) ==
    IF node = Null THEN Null
    ELSE IF instanceofComponent(node) THEN node
    ELSE IF IsElement(node)
            /\ endsWith(tagName(node),
                        <<"-", "c", "o", "m", "p", "o", "n", "e", "n", "t">>)
         THEN node
    ELSE IF getAncestor(node) # Null THEN getClosestComponent(getAncestor(node))
    ELSE Null

\* A mutant of isDescendant: containment alone, blind to component boundaries.
RECURSIVE containedIn(_, _)
containedIn(c, node) ==
    /\ getAncestor(node) # Null
    /\ \/ getAncestor(node) = c
       \/ containedIn(c, getAncestor(node))

isDescendant(c, node) == getClosestComponent(getAncestor(node)) = c

(***************************************************************************)
(* Queries                                                                 *)
(***************************************************************************)
\* node is a descendant of root in root's own node tree
RECURSIVE inTree(_, _)
inTree(root, node) ==
    /\ parentNode(node) # Null
    /\ \/ parentNode(node) = root
       \/ inTree(root, parentNode(node))

\* The elements of a set of ids, in tree order, as a sequence.
RECURSIVE inOrder(_)
inOrder(S) ==
    IF S = {} THEN <<>>
    ELSE LET least == CHOOSE n \in S : \A m \in S : n <= m
         IN  <<least>> \o inOrder(S \ {least})

\* root.querySelectorAll('[ref]')
querySelectorAllRef(root) ==
    inOrder({ n \in Nodes : inTree(root, n) /\ Len(refAttr[n]) = 1 })

\* this.roots, given this.shadowRoot (null or the attached root)
roots(c, root) == IF root # Null THEN <<c, root>> ELSE <<c>>

\* element.shadowRoot
shadowRootOf(c) == IF shadowRoot[c] THEN ShadowRootOf(c) ELSE Null

\* :scope > template[shadowrootmode="open"]: the declarative shadow tree of
\* an element whose shadow root is not attached lies in its template.
hasTemplate(c) == \E n \in Nodes : parent[n] = c /\ inShadow[n]

(***************************************************************************)
(* Component.#updateRefs                                                   *)
(***************************************************************************)
\* The elements the scan keeps, in the order it meets them.
refElements(c, root) ==
    LET own(n) == isDescendant(c, n)
        found(i) == SelectSeq(querySelectorAllRef(roots(c, root)[i]), own)
    IN  IF Len(roots(c, root)) = 2 THEN found(1) \o found(2) ELSE found(1)

refPath(refName) ==
    IF endsWith(refName, <<"[", "]">>)
    THEN SubSeq(refName, 1, Len(refName) - 2)
    ELSE refName

\* A mutant of addRef: a plural ref overwrites the list instead of growing it.
addRefOverwriting(acc, ref) ==
    LET refName == refAttr[ref][1]
        isArray == endsWith(refName, <<"[", "]">>)
        path == refPath(refName)
        entry == [isArray |-> isArray, els |-> <<ref>>]
    IN  [k \in DOMAIN acc \cup {path} |-> IF k = path THEN entry ELSE acc[k]]

\* One turn of the loop over the elements: refs[path] is set to the element,
\* or the element is pushed on the list under refs[path].
addRef(acc, ref) ==
    LET refName == refAttr[ref][1]
        isArray == endsWith(refName, <<"[", "]">>)
        path == refPath(refName)
        array == IF path \in DOMAIN acc /\ acc[path].isArray
                 THEN acc[path].els ELSE <<>>
        entry == IF isArray
                 THEN [isArray |-> TRUE, els |-> Append(array, ref)]
                 ELSE [isArray |-> FALSE, els |-> <<ref>>]
    IN  [k \in DOMAIN acc \cup {path} |-> IF k = path THEN entry ELSE acc[k]]

RECURSIVE collectRefs(_, _)
collectRefs(elements, acc) ==
    IF elements = <<>> THEN acc
    ELSE collectRefs(Tail(elements), addRef(acc, Head(elements)))

scanRefs(c, root) == collectRefs(refElements(c, root), <<>>)

\* The required refs the scan did not find, in the order of requiredRefs.
missingRefs(c, built) ==
    LET absent(ref) == ref \notin DOMAIN built
    IN  SelectSeq(requiredRefs[c], absent)

\* MissingRefError(ref, component)
MissingRefError(ref, c) == <<"MissingRefError", ref, c>>
NoError == <<>>

\* A run of #updateRefs: the mapping it builds and the error it throws for a
\* missing required ref (NoError: none).  root is this.shadowRoot at the time.
updateRefs(c, root) ==
    LET built == scanRefs(c, root)
        missing == missingRefs(c, built)
    IN  [built |-> built,
         error |-> IF missing # <<>>
                   THEN MissingRefError(Head(missing), c) ELSE NoError]

\* A mutant of assignRefs: this.refs is assigned before the required refs
\* are checked.
assignRefsBeforeCheck(c, run) == [refs EXCEPT ![c] = run.built]

\* this.refs after a run: assigned on the last line, which a throw skips.
assignRefs(c, run) ==
    IF run.error = NoError THEN [refs EXCEPT ![c] = run.built] ELSE refs


(***************************************************************************)
(* registerEventListeners                                                  *)
(***************************************************************************)
events ==
    <<"click", "change", "select", "focus", "blur", "submit", "input",
      "keydown", "keyup", "toggle">>
shouldBubble == {"focus", "blur"}
expensiveEvents == <<"pointerenter", "pointerleave">>
Range(seq) == { seq[i] : i \in DOMAIN seq }
EventKinds == Range(events \o expensiveEvents)

\* A mutant of registerEventListeners: no `initialized` guard.
registerEventListenersUnguarded ==
    /\ initialized' = TRUE
    /\ listeners' = [k \in EventKinds |-> listeners[k] + 1]

registerEventListeners ==
    IF initialized
    THEN UNCHANGED <<initialized, listeners>>
    ELSE /\ initialized' = TRUE
         /\ listeners' = [k \in EventKinds |-> listeners[k] + 1]

(***************************************************************************)
(* The registry's listener: taking the attribute value apart               *)
(***************************************************************************)
\* The index of the first ch in str at or after from (0: none).
RECURSIVE indexOf(_, _, _)
indexOf(str, ch, from) ==
    IF from > Len(str) THEN 0
    ELSE IF str[from] = ch THEN from
    ELSE indexOf(str, ch, from + 1)

\* str.split(separator), for a one-character separator
RECURSIVE split(_, _)
split(str, separator) ==
    LET at == indexOf(str, separator, 1)
    IN  IF at = 0 THEN <<str>>
        ELSE <<SubSeq(str, 1, at - 1)>>
                \o split(SubSeq(str, at + 1, Len(str)), separator)

isDelimiter(ch) == ch = "/" \/ ch = "?"

\* The index of the last delimiter of str at or before from (0: none).
RECURSIVE lastDelimiter(_, _)
lastDelimiter(str, from) ==
    IF from < 1 THEN 0
    ELSE IF isDelimiter(str[from]) THEN from
    ELSE lastDelimiter(str, from - 1)

\* value.match(/([\/\?][^\/\?]+)([\/\?][^\/\?]+)$/): group 2 of the match,
\* <<>> for null.  The value must end in two delimited, non-empty runs.
matchData(value) ==
    LET second == lastDelimiter(value, Len(value))
        first == lastDelimiter(value, second - 1)
    IN  IF /\ second > 0
           /\ second < Len(value)
           /\ first > 0
           /\ first < second - 1
        THEN SubSeq(value, second, Len(value))
        ELSE <<>>

\* method.replace(/\?.*/, '')
stripQuery(method) ==
    LET at == indexOf(method, "?", 1)
    IN  IF at = 0 THEN method ELSE SubSeq(method, 1, at - 1)

(***************************************************************************)
(* parseData / parseValue                                                  *)
(* A parsed value is [type, value], type one of "boolean", "number",       *)
(* "string"; a parsed object is [type |-> "object", value |-> a function   *)
(* from its keys to parsed values].  The texts hold no sign, point,        *)
(* exponent or radix prefix, and no `%`.                                   *)
(***************************************************************************)
DigitChars == <<"0", "1", "2", "3", "4", "5", "6", "7", "8", "9">>
isDigit(ch) == \E i \in DOMAIN DigitChars : DigitChars[i] = ch
digitValue(ch) == (CHOOSE i \in DOMAIN DigitChars : DigitChars[i] = ch) - 1
isSpace(ch) == ch = " "

\* str.trim()
RECURSIVE trim(_)
trim(str) ==
    IF str = <<>> THEN str
    ELSE IF isSpace(Head(str)) THEN trim(Tail(str))
    ELSE IF isSpace(str[Len(str)]) THEN trim(SubSeq(str, 1, Len(str) - 1))
    ELSE str

RECURSIVE decimal(_)
decimal(digits) ==
    IF digits = <<>> THEN 0
    ELSE 10 * decimal(SubSeq(digits, 1, Len(digits) - 1))
            + digitValue(digits[Len(digits)])

\* Number(str): white space is trimmed, the empty text is 0, digits are a
\* decimal number, any other text is NaN.
Number(str) ==
    LET text == trim(str)
    IN  IF \A i \in DOMAIN text : isDigit(text[i])
        THEN [isNaN |-> FALSE, value |-> decimal(text)]
        ELSE [isNaN |-> TRUE, value |-> 0]

\* A mutant of parseValue: no coercion, the text is handed on as it is.
parseValueAsText(str) == [type |-> "string", value |-> str]

parseValue(str) ==
    IF str = <<"t", "r", "u", "e">> THEN [type |-> "boolean", value |-> TRUE]
    ELSE IF str = <<"f", "a", "l", "s", "e">>
         THEN [type |-> "boolean", value |-> FALSE]
    ELSE IF ~Number(str).isNaN /\ trim(str) # <<>>
         THEN [type |-> "number", value |-> Number(str).value]
    ELSE [type |-> "string", value |-> str]

\* '+' stands for a space in application/x-www-form-urlencoded text.
plusToSpace(str) == [i \in DOMAIN str |-> IF str[i] = "+" THEN " " ELSE str[i]]

\* Array.from(new URLSearchParams(data).entries()): the non-empty runs
\* between `&`, each cut at its first `=`.
URLSearchParamsEntries(data) ==
    LET notEmpty(run) == run # <<>>
        runs == SelectSeq(split(data, "&"), notEmpty)
        entry(run) ==
            LET at == indexOf(run, "=", 1)
            IN  IF at = 0 THEN <<plusToSpace(run), <<>> >>
                ELSE <<plusToSpace(SubSeq(run, 1, at - 1)),
                       plusToSpace(SubSeq(run, at + 1, Len(run)))>>
    IN  [i \in DOMAIN runs |-> entry(runs[i])]

\* Object.fromEntries(entries.map(([key, value]) => [key, parseValue(value)]))
RECURSIVE fromEntries(_, _)
fromEntries(entries, object) ==
    IF entries = <<>> THEN object
    ELSE LET key == Head(entries)[1]
             value == parseValue(Head(entries)[2])
         IN  fromEntries(Tail(entries),
                [k \in DOMAIN object \cup {key} |->
                    IF k = key THEN value ELSE object[k]])

parseData(str) ==
    LET delimiter == str[1]
        data == Tail(str)
    IN  IF delimiter = "?"
        THEN [type |-> "object",
              value |-> fromEntries(URLSearchParamsEntries(data), <<>>)]
        ELSE parseValue(data)

(***************************************************************************)
(* The registry's listener                                                 *)
(***************************************************************************)
\* The root of node's node tree: the document, a shadow root, or node.
RECURSIVE treeRoot(_)
treeRoot(node) ==
    IF parentNode(node) = Null THEN node ELSE treeRoot(parentNode(node))

\* node is in the document: every shadow root above it is attached.
RECURSIVE inDocument(_)
inDocument(node) ==
    \/ node = Doc
    \/ /\ IsElement(node)
       /\ inShadow[node] => shadowRoot[parent[node]]
       /\ inDocument(parent[node])

\* event.target as a listener on the document reads it: an element of a
\* shadow tree is retargeted to the host that is in the document tree.
RECURSIVE retarget(_)
retarget(node) ==
    IF IsShadowRoot(treeRoot(node)) THEN retarget(HostOf(treeRoot(node)))
    ELSE node

preventDefault == [function |-> "preventDefault", this |-> "unbound"]

\* An Event: type, bubbles and target are data properties, preventDefault a
\* method; path is composedPath()[0].
Event(type, origin, bubbles) ==
    [type |-> type, bubbles |-> bubbles, target |-> retarget(origin),
     path |-> origin, preventDefault |-> preventDefault]
NoEvent == [type |-> "", bubbles |-> FALSE, target |-> Null, path |-> Null,
            preventDefault |-> preventDefault]
EventProperties == {"type", "bubbles", "target", "preventDefault"}

hasAttribute(node, type) == Len(onAttr[node][type]) = 1

\* node.closest(...): the nearest of node and its ancestors in its own node
\* tree that is in matching (Null: none).
RECURSIVE closest(_, _)
closest(node, matching) ==
    IF node \in matching THEN node
    ELSE IF IsElement(parentNode(node)) THEN closest(parentNode(node), matching)
    ELSE Null

\* A mutant of getElement: the expensive events look above the target too.
getElementAlwaysLooksUp(ev) ==
    LET target == ev.path
    IN  IF ~IsElement(target) THEN Null
        ELSE IF hasAttribute(target, ev.type) THEN target
        ELSE IF ev.bubbles \/ ev.type \in shouldBubble
             THEN closest(target, { n \in Nodes : hasAttribute(n, ev.type) })
        ELSE Null

\* A mutant of getElement: focus and blur are looked up as any other kind.
getElementOfBubbling(ev) ==
    LET target == ev.path
    IN  IF ~IsElement(target) THEN Null
        ELSE IF hasAttribute(target, ev.type) THEN target
        ELSE IF ev.type \in Range(expensiveEvents) THEN Null
        ELSE IF ev.bubbles
             THEN closest(target, { n \in Nodes : hasAttribute(n, ev.type) })
        ELSE Null

getElement(ev) ==
    LET target == ev.path
    IN  IF ~IsElement(target) THEN Null
        ELSE IF hasAttribute(target, ev.type) THEN target
        ELSE IF ev.type \in Range(expensiveEvents) THEN Null
        ELSE IF ev.bubbles \/ ev.type \in shouldBubble
             THEN closest(target, { n \in Nodes : hasAttribute(n, ev.type) })
        ELSE Null

\* A mutant of proxiedEvent: the event is handed on as it is.
unproxiedEvent(ev, element) == [proxy |-> FALSE, event |-> ev, element |-> Null]

\* The event handed to the method: the event itself, or a Proxy of it.
proxiedEvent(ev, element) ==
    IF ev.target # element
    THEN [proxy |-> TRUE, event |-> ev, element |-> element]
    ELSE [proxy |-> FALSE, event |-> ev, element |-> Null]

\* Reading a property of the event a method was handed: the Proxy's get
\* trap answers `target` itself and binds functions to the event.
get(handed, property) ==
    IF ~handed.proxy THEN handed.event[property]
    ELSE IF property = "target" THEN handed.element
    ELSE LET value == handed.event[property]
             isFunction == property = "preventDefault"
         IN  IF isFunction
             THEN [function |-> value.function, this |-> "event"]
             ELSE value

\* The pages give element n the id n.
idOf(node) == <<DigitChars[node + 1]>>

\* element.matches(selector), for an id selector or a type selector
matches(node, selector) ==
    IF startsWith(selector, <<"#">>)
    THEN idOf(node) = Tail(selector)
    ELSE tagName(node) = selector

\* document.querySelector(selector): the first match in the document tree
querySelector(selector) ==
    LET found == { n \in Nodes : treeRoot(n) = Doc /\ matches(n, selector) }
    IN  IF found = {} THEN Null ELSE Head(inOrder(found))

\* The methods the Component subclasses of the pages define.
save == <<"s", "a", "v", "e">>
setQty == <<"s", "e", "t", "Q", "t", "y">>
Methods == { save, setQty }

\* A mutant of callArguments: the event first, the data after it.
callArgumentsEventFirst(data, handed) ==
    IF data # <<>> THEN <<handed, parseData(data)>> ELSE <<handed>>

\* args = [proxiedEvent]; if (data) args.unshift(parseData(data))
callArguments(data, handed) ==
    IF data # <<>> THEN <<parseData(data), handed>> ELSE <<handed>>

\* A mutant of resolveInstance: with no selector, the search for the
\* component starts above the element.
resolveInstanceAbove(element, selector) ==
    IF selector # <<>>
    THEN IF startsWith(selector, <<"#">>)
         THEN querySelector(selector)
         ELSE closest(element, { n \in Nodes : matches(n, selector) })
    ELSE getClosestComponent(getAncestor(element))

\* A mutant of resolveInstance: every selector is looked up in the document.
resolveInstanceInDocument(element, selector) ==
    IF selector # <<>>
    THEN querySelector(selector)
    ELSE getClosestComponent(element)

\* The instance the method is looked up on.
resolveInstance(element, selector) ==
    IF selector # <<>>
    THEN IF startsWith(selector, <<"#">>)
         THEN querySelector(selector)
         ELSE closest(element, { n \in Nodes : matches(n, selector) })
    ELSE getClosestComponent(element)

\* One run of the listener for ev: the method calls it makes, [instance,
\* method, args] each.
listenerCalls(ev) ==
    LET element == getElement(ev)
        value == onAttr[element][ev.type][1]
        parts == split(value, "/")
        selector == parts[1]
        method == IF Len(parts) >= 2 THEN parts[2] ELSE <<>>
        data == matchData(value)
        instance == resolveInstance(element, selector)
    IN  IF element = Null THEN <<>>
        ELSE IF ~instanceofComponent(instance) \/ method = <<>> THEN <<>>
        ELSE IF stripQuery(method) \notin Methods THEN <<>>
        ELSE << [instance |-> instance,
                 method |-> stripQuery(method),
                 args |-> callArguments(data, proxiedEvent(ev, element))] >>

Error(call) == <<"Error", call.instance, call.method>>

\* A mutant of caught: no try/catch, the method's error leaves the listener.
uncaught(made, outcome) ==
    [logged |-> <<>>,
     thrown |-> IF outcome = "throws" /\ made # <<>>
                THEN Error(made[1]) ELSE NoError]

\* try { callback.call(instance, ...args) } catch (error) { console.error(error) }
caught(made, outcome) ==
    [logged |-> IF outcome = "throws"
                THEN [i \in DOMAIN made |-> Error(made[i])] ELSE <<>>,
     thrown |-> NoError]

RECURSIVE repeat(_, _)
repeat(seq, times) == IF times = 0 THEN <<>> ELSE seq \o repeat(seq, times - 1)

\* An event of the given type starts at element origin and reaches the
\* document, whose capturing listeners for the type run one after the
\* other; outcome tells whether the methods they call throw.
dispatchEvent(type, origin, bubbles, outcome) ==
    LET ev == Event(type, origin, bubbles)
        made == repeat(listenerCalls(ev), listeners[type])
    IN  /\ inDocument(origin)
        /\ event' = ev
        /\ calls' = made
        /\ logged' = caught(made, outcome).logged
        /\ thrown' = caught(made, outcome).thrown
        /\ UNCHANGED <<domVars, compVars, initialized, listeners, listVars, timerVars>>

(***************************************************************************)
(* Component: the lifecycle callbacks                                      *)
(***************************************************************************)
Components == { n \in Nodes : kind[n] = "Component" }

\* DeclarativeShadowElement.connectedCallback: the shadow root after it.
hydrated(c) == shadowRoot[c] \/ hasTemplate(c)

\* A mutant of idleAfterConnect: the idle callback is requested before the
\* refs are scanned.
idleRequestedFirst(c, run) == [idle EXCEPT ![c] = @ + 1]

\* requestIdleCallback is reached only when #updateRefs returned.
idleAfterConnect(c, run) ==
    IF run.error = NoError THEN [idle EXCEPT ![c] = @ + 1] ELSE idle

connectedCallback(c) ==
    /\ ~connected[c]
    /\ idle[c] < MaxIdle
    /\ connected' = [connected EXCEPT ![c] = TRUE]
    /\ shadowRoot' = [shadowRoot EXCEPT ![c] = hydrated(c)]
    /\ UNCHANGED <<parent, inShadow, kind, refAttr, onAttr, binding, requiredRefs>>
    /\ registerEventListeners
    /\ LET run == updateRefs(c, IF hydrated(c) THEN ShadowRootOf(c) ELSE Null)
       IN  /\ refs' = assignRefs(c, run)
           /\ idle' = idleAfterConnect(c, run)
           /\ thrown' = run.error
    /\ UNCHANGED <<observing, records, event, calls, logged, listVars, timerVars>>

\* The callback given to requestIdleCallback in connectedCallback.
idleCallback(c) ==
    /\ idle[c] > 0
    /\ idle' = [idle EXCEPT ![c] = @ - 1]
    /\ observing' = [observing EXCEPT ![c] = @ \cup Range(roots(c, shadowRootOf(c)))]
    /\ thrown' = NoError
    /\ UNCHANGED <<domVars, refs, requiredRefs, connected, records>>
    /\ UNCHANGED <<initialized, listeners, event, calls, logged, listVars, timerVars>>

updatedCallback(c) ==
    /\ connected[c]
    /\ records' = [records EXCEPT ![c] = {}]
    /\ LET run == updateRefs(c, shadowRootOf(c))
       IN  /\ refs' = assignRefs(c, run)
           /\ thrown' = run.error
    /\ UNCHANGED <<domVars, requiredRefs, connected, idle, observing>>
    /\ UNCHANGED <<initialized, listeners, event, calls, logged, listVars, timerVars>>

disconnectedCallback(c) ==
    /\ connected[c]
    /\ connected' = [connected EXCEPT ![c] = FALSE]
    /\ observing' = [observing EXCEPT ![c] = {}]
    /\ records' = [records EXCEPT ![c] = {}]
    /\ thrown' = NoError
    /\ UNCHANGED <<domVars, refs, requiredRefs, idle>>
    /\ UNCHANGED <<initialized, listeners, event, calls, logged, listVars, timerVars>>

\* The callback of #mutationObserver, given the queued records.
mutationObserverCallback(c) ==
    /\ records[c] # {}
    /\ records' = [records EXCEPT ![c] = {}]
    /\ IF \E m \in records[c] : isDescendant(c, m.node)
       THEN LET run == updateRefs(c, shadowRootOf(c))
            IN  /\ refs' = assignRefs(c, run)
                /\ thrown' = run.error
       ELSE /\ refs' = refs
            /\ thrown' = NoError
    /\ UNCHANGED <<domVars, requiredRefs, connected, idle, observing>>
    /\ UNCHANGED <<initialized, listeners, event, calls, logged, listVars, timerVars>>

(***************************************************************************)
(* The page's scripts                                                      *)
(***************************************************************************)
\* The components whose observer is told of a change of `ref` on element n:
\* n lies in the tree of a root they observe (attributeFilter: ['ref']).
observersOf(n) ==
    { c \in Components :
        \E root \in observing[c] : root = n \/ inTree(root, n) }

MutationRecord(type, target, node, added) ==
    [type |-> type, target |-> target, node |-> node, added |-> added]

\* element.setAttribute('ref', value) / element.removeAttribute('ref')
setRefAttribute(n, value) ==
    /\ refAttr[n] # value
    /\ refAttr' = [refAttr EXCEPT ![n] = value]
    /\ records' = [c \in Nodes |->
                     IF c \in observersOf(n)
                     THEN records[c] \cup {MutationRecord("attributes", n, n, FALSE)}
                     ELSE records[c]]
    /\ UNCHANGED <<parent, inShadow, kind, shadowRoot, onAttr, binding>>
    /\ UNCHANGED <<refs, requiredRefs, connected, idle, observing>>
    /\ UNCHANGED <<regVars, listVars, timerVars>>

\* par keeps the ids in document order: what lies below an element follows
\* it without a gap.
RECURSIVE below(_, _, _)
below(par, a, n) ==
    /\ par[n] \in Nodes
    /\ \/ par[n] = a
       \/ below(par, a, par[n])

treeOrdered(par) ==
    \A a, b, c \in Nodes :
        (a < b /\ b < c /\ below(par, a, c) /\ par[b] # Null) => below(par, a, b)

\* n.remove(): a childList record for the parent, with n in removedNodes
removeChild(n) ==
    /\ parent[n] \notin {Null, Doc}
    /\ parent' = [parent EXCEPT ![n] = Null]
    /\ inShadow' = [inShadow EXCEPT ![n] = FALSE]
    /\ records' = [c \in Nodes |->
                     IF c \in observersOf(parentNode(n))
                     THEN records[c]
                            \cup {MutationRecord("childList", parentNode(n), n, FALSE)}
                     ELSE records[c]]
    /\ UNCHANGED <<kind, shadowRoot, refAttr, onAttr, binding>>
    /\ UNCHANGED <<refs, requiredRefs, connected, idle, observing>>
    /\ UNCHANGED <<regVars, listVars, timerVars>>

\* p.insertBefore(n, ...), n an element that is in no tree, at a place that
\* keeps the ids in document order: a childList record for p, with n in
\* addedNodes
insertBefore(p, n) ==
    /\ parent[n] = Null
    /\ p < n
    /\ treeOrdered([parent EXCEPT ![n] = p])
    /\ parent' = [parent EXCEPT ![n] = p]
    /\ records' = [c \in Nodes |->
                     IF c \in observersOf(p)
                     THEN records[c] \cup {MutationRecord("childList", p, n, TRUE)}
                     ELSE records[c]]
    /\ UNCHANGED <<inShadow, kind, shadowRoot, refAttr, onAttr, binding>>
    /\ UNCHANGED <<refs, requiredRefs, connected, idle, observing>>
    /\ UNCHANGED <<regVars, listVars, timerVars>>

(***************************************************************************)
(* OverflowList: layout                                                    *)
(* The list lays its boxes out in one wrapping row, in visual order; an    *)
(* element is visible when it is on the first row.                          *)
(***************************************************************************)
Items == 1..NumItems
NoItem == 0
More == NumItems + 1
MoreWidth == 1
RowHeight == 1
ItemWidths == 1..2
DefaultSlot == ""
OverflowSlot == "overflow"
NoDimension == [width |-> -1, height |-> -1]

boxWidth(box) == IF box = More THEN MoreWidth ELSE itemWidth[box]

\* The width the first k boxes take side by side.
RECURSIVE rowWidth(_, _)
rowWidth(boxes, k) ==
    IF k = 0 THEN 0 ELSE rowWidth(boxes, k - 1) + boxWidth(boxes[k])

\* The boxes on the first row: the first box, and each next one while the
\* row still holds it.
firstRow(boxes) ==
    { boxes[k] : k \in { j \in DOMAIN boxes :
                           j = 1 \/ rowWidth(boxes, j) <= containerWidth } }

\* The boxes in visual order: those with order -1 (the "more" slot when it
\* is shown for measuring, the element `first`) in template order, then the
\* elements of the default slot.
visualOrder(elements, moreShown, first) ==
    LET more == IF moreShown THEN <<More>> ELSE <<>>
        item == IF first # NoItem THEN <<first>> ELSE <<>>
        rest == SelectSeq(elements, LAMBDA el : el # first)
    IN  (IF moreFirst THEN more \o item ELSE item \o more) \o rest

(***************************************************************************)
(* OverflowList                                                            *)
(***************************************************************************)
\* slot.assignedElements(), given the slot attributes
assignedElements(slots, name) ==
    SelectSeq([i \in Items |-> i], LAMBDA el : slots[el] = name)

\* A mutant of moveItemsToDefaultSlot: the items stay where they are.
moveItemsNowhere == slot

\* #moveItemsToDefaultSlot: the slot attributes after it
moveItemsToDefaultSlot ==
    [i \in Items |-> IF slot[i] = OverflowSlot THEN DefaultSlot ELSE slot[i]]

\* getVisibleElements(), with the boxes laid out as given
getVisibleElements(elements, boxes) ==
    SelectSeq(elements, LAMBDA el : el \in firstRow(boxes))

\* A mutant of calculateWithMore: the "more" slot is always measured.
calculateWithMoreAlways(visible, elements, lastVisibleElement) == TRUE

\* visibleElements.length !== elements.length || lastVisibleElement
calculateWithMore(visible, elements, lastVisibleElement) ==
    Len(visible) # Len(elements) \/ lastVisibleElement # NoItem

\* A mutant of remeasure: the "more" slot stays hidden while measuring.
remeasureMoreHidden(elements, lastVisibleElement) ==
    getVisibleElements(elements, visualOrder(elements, FALSE, lastVisibleElement))

\* The "more" slot shown and put first with lastVisibleElement, the visible
\* elements recalculated.
remeasure(elements, lastVisibleElement) ==
    getVisibleElements(elements, visualOrder(elements, TRUE, lastVisibleElement))

\* lastVisibleElement put in the last visible position
lastVisible(visible, lastVisibleElement) ==
    IF lastVisibleElement # NoItem /\ lastVisibleElement \in Range(visible)
    THEN SelectSeq(visible, LAMBDA el : el # lastVisibleElement)
             \o <<lastVisibleElement>>
    ELSE visible

\* A mutant of updateMinimumReached: the event is not dispatched.
updateMinimumReachedSilently(visible) ==
    IF minimumItems # <<>>
    THEN [reached |-> Len(visible) < minimumItems[1], dispatched |-> <<>>]
    ELSE [reached |-> minimumReached, dispatched |-> <<>>]

\* #updateMinimumReached: the minimum-reached attribute after it and the
\* events it dispatches
updateMinimumReached(visible) ==
    IF minimumItems # <<>>
    THEN [reached |-> Len(visible) < minimumItems[1],
          dispatched |-> <<Len(visible) < minimumItems[1]>>]
    ELSE [reached |-> minimumReached, dispatched |-> <<>>]

\* The visible elements #reflowItems settles on
measure(elements, lastVisibleElement) ==
    LET firstPass == getVisibleElements(elements, visualOrder(elements, FALSE, NoItem))
    IN  IF calculateWithMore(firstPass, elements, lastVisibleElement)
        THEN lastVisible(remeasure(elements, lastVisibleElement),
                         lastVisibleElement)
        ELSE firstPass

\* #reflowItems(lastVisibleElement)
reflowItems(lastVisibleElement) ==
    \E moved \in {moveItemsToDefaultSlot} :
    \E elements \in {assignedElements(moved, DefaultSlot)} :
    \E visible \in {measure(elements, lastVisibleElement)} :
    \E overflowing \in
           {SelectSeq(elements, LAMBDA el : el \notin Range(visible))} :
    \E minimum \in
           {IF Len(overflowing) > 0 THEN updateMinimumReached(visible)
            ELSE [reached |-> minimumReached, dispatched |-> <<>>]} :
        LET hasOverflow == Len(overflowing) > 0
        IN  /\ slot' = [i \in Items |->
                          IF i \in Range(elements)
                          THEN IF i \in Range(overflowing) THEN OverflowSlot
                               ELSE DefaultSlot
                          ELSE moved[i]]
            /\ visibleElements' = visible
            /\ overflowingElements' = overflowing
            /\ moreHidden' = ~hasOverflow
            /\ placeholder' =
                  IF hasOverflow
                  THEN [placeholder EXCEPT
                          !.hidden = FALSE,
                          !.width = <<itemWidth[overflowing[1]]>>]
                  ELSE [placeholder EXCEPT !.hidden = TRUE]
            /\ counterReset' = <<Len(overflowing)>>
            /\ overflowCount' = <<Len(overflowing)>>
            /\ minimumReached' = minimum.reached
            /\ dispatched' = minimum.dispatched
            /\ lastDimensions' = [width |-> containerWidth, height |-> RowHeight]
            /\ resizeObserver' = [observing |-> TRUE, initialized |-> FALSE]
            /\ mutationObserving' = TRUE

\* #reset
reset ==
    /\ mutationObserving' = FALSE
    /\ resizeObserver' = [observing |-> FALSE, initialized |-> FALSE]
    /\ slot' = moveItemsToDefaultSlot
    /\ overflowCount' = <<0>>
    /\ counterReset' = counterReset

\* A mutant of handleChange: no look at #scheduled.
handleChangeUnguarded(isResize, width, height) ==
    IF isResize /\ (width = 0 \/ height = 0
                       \/ (width = lastDimensions.width
                             /\ height = lastDimensions.height))
    THEN UNCHANGED <<scheduled, pending, lastDimensions>>
    ELSE /\ lastDimensions' = IF isResize
                              THEN [width |-> width, height |-> height]
                              ELSE lastDimensions
         /\ scheduled' = TRUE
         /\ pending' = pending + 1

\* A mutant of handleChange: a zero width or height is no reason to return.
handleChangeOfAnySize(isResize, width, height) ==
    IF scheduled THEN UNCHANGED <<scheduled, pending, lastDimensions>>
    ELSE IF isResize /\ (width = lastDimensions.width
                            /\ height = lastDimensions.height)
    THEN UNCHANGED <<scheduled, pending, lastDimensions>>
    ELSE /\ lastDimensions' = IF isResize
                              THEN [width |-> width, height |-> height]
                              ELSE lastDimensions
         /\ scheduled' = TRUE
         /\ pending' = pending + 1

\* #handleChange, for a ResizeObserver entry of the given size or (isResize
\* false) for mutation records
handleChange(isResize, width, height) ==
    IF scheduled THEN UNCHANGED <<scheduled, pending, lastDimensions>>
    ELSE IF isResize /\ (width = 0 \/ height = 0
                            \/ (width = lastDimensions.width
                                  /\ height = lastDimensions.height))
    THEN UNCHANGED <<scheduled, pending, lastDimensions>>
    ELSE /\ lastDimensions' = IF isResize
                              THEN [width |-> width, height |-> height]
                              ELSE lastDimensions
         /\ scheduled' = TRUE
         /\ pending' = pending + 1

beyondList == <<domVars, compVars, regVars, timerVars>>
elsewhere == <<beyondList, lifeVars>>

MissingShadowRoot == "Missing shadow root"
InvalidElementTypes == "Invalid element types in <OverflowList />"
TypeError == "TypeError"

\* What #initialize leaves alone when it throws.
uninitialized ==
    UNCHANGED <<slotVars, listRefs, resizeObserver, mutationObserving,
                lastDimensions, reflowListeners, reflowsRun>>

\* A mutant of initialize: the `reflow` listener is added before the parts
\* are looked at.
initializeListenerFirst(root) ==
    IF root # "attached"
    THEN /\ listThrown' = MissingShadowRoot
         /\ uninitialized
    ELSE IF templateParts # "valid"
    THEN /\ listThrown' = InvalidElementTypes
         /\ reflowListeners' = reflowListeners + 1
         /\ UNCHANGED <<slotVars, listRefs, resizeObserver, mutationObserving,
                        lastDimensions, reflowsRun>>
    ELSE /\ listThrown' = ""
         /\ listRefs' = TRUE
         /\ reflowListeners' = reflowListeners + 1
         /\ reflowItems(NoItem)
         /\ reflowsRun' = 1

\* #initialize, for the shadow root the element has
initialize(root) ==
    IF root # "attached"
    THEN /\ listThrown' = MissingShadowRoot
         /\ uninitialized
    ELSE IF templateParts # "valid"
    THEN /\ listThrown' = InvalidElementTypes
         /\ uninitialized
    ELSE /\ listThrown' = ""
         /\ listRefs' = TRUE
         /\ reflowListeners' = reflowListeners + 1
         /\ reflowItems(NoItem)
         /\ reflowsRun' = 1

\* #initialize returns: it does not throw.
initializes(root) == root = "attached" /\ templateParts = "valid"

\* DeclarativeShadowElement.connectedCallback: the template child, if the
\* element has no shadow root, becomes one.
attachShadow == IF listShadow = "template" THEN "attached" ELSE listShadow

\* OverflowList.connectedCallback of an element in the given stage: "new",
\* or "removed" for one that is attached again.
listConnected(from) ==
    /\ stage = from
    /\ reflowListeners < MaxListeners
    /\ listShadow' = attachShadow
    /\ lastHint' = NoItem
    /\ IF defer
       THEN /\ stage' = "idle"
            /\ lastOp' = "other"
            /\ uninitialized
            /\ UNCHANGED listThrown
       ELSE IF attachShadow = "attached"
       THEN /\ stage' = "started"
            /\ lastOp' = IF initializes(attachShadow) THEN "reflow" ELSE "other"
            /\ initialize(attachShadow)
       ELSE /\ stage' = "waiting"
            /\ lastOp' = "other"
            /\ uninitialized
            /\ UNCHANGED listThrown
    /\ UNCHANGED <<pageVars, scheduled, pending, templateParts, beyondList>>

listConnectedCallback == listConnected("new")

\* The callback of setTimeout(() => this.#initialize(), 0)
initializeTimeout ==
    /\ stage = "waiting"
    /\ stage' = "started"
    /\ initialize(listShadow)
    /\ lastOp' = IF initializes(listShadow) THEN "reflow" ELSE "other"
    /\ lastHint' = NoItem
    /\ UNCHANGED <<pageVars, scheduled, pending, listShadow, templateParts, beyondList>>

\* The parser reaches the element's declarative template and attaches the
\* shadow root.
parserAttaches ==
    /\ listShadow = "none"
    /\ listShadow' = "attached"
    /\ UNCHANGED <<pageVars, slotVars, observerVars, templateParts, reflowListeners,
                   reflowsRun, listThrown, beyondList>>

\* The callback given to requestIdleCallback: schedule(deferredReflow)
listIdleCallback ==
    /\ stage = "idle"
    /\ stage' = "scheduled"
    /\ lastOp' = "other"
    /\ lastHint' = NoItem
    /\ UNCHANGED <<pageVars, slotVars, listRefs, resizeObserver, mutationObserving,
                   scheduled, pending, lastDimensions, elsewhere>>

deferredReflow ==
    /\ stage = "scheduled"
    /\ stage' = "started"
    /\ defer' = FALSE
    /\ initialize(listShadow)
    /\ lastOp' = IF initializes(listShadow) THEN "reflow" ELSE "other"
    /\ lastHint' = NoItem
    /\ UNCHANGED <<itemWidth, moreFirst, containerWidth, minimumItems, disabled,
                   scheduled, pending, listShadow, templateParts, beyondList>>

OverflowList_disconnectedCallback ==
    /\ stage = "started"
    /\ stage' = "removed"
    /\ resizeObserver' = [observing |-> FALSE, initialized |-> FALSE]
    /\ lastOp' = "other"
    /\ lastHint' = NoItem
    /\ UNCHANGED <<pageVars, slotVars, listRefs, mutationObserving, scheduled,
                   pending, lastDimensions, elsewhere>>

\* What a call of #handleChange leaves in lastOp: "returned" where it
\* returns at once for #scheduled being set, "notified" otherwise.
notification == IF scheduled THEN "returned" ELSE "notified"

\* The element is resized to the given width; the ResizeNotifier, if it
\* observes the element, passes the entry on to #handleChange, but for the
\* first entry after observe().
resize(width) ==
    /\ width # containerWidth
    /\ pending < MaxPending
    /\ containerWidth' = width
    /\ lastOp' = IF resizeObserver.observing /\ resizeObserver.initialized
                 THEN notification ELSE "other"
    /\ lastHint' = NoItem
    /\ IF resizeObserver.observing /\ resizeObserver.initialized
       THEN /\ handleChange(TRUE, width, RowHeight)
            /\ UNCHANGED resizeObserver
       ELSE /\ resizeObserver' =
                  [resizeObserver EXCEPT !.initialized = resizeObserver.observing]
            /\ UNCHANGED <<scheduled, pending, lastDimensions>>
    /\ UNCHANGED <<itemWidth, moreFirst, minimumItems, defer, disabled, slotVars,
                   listRefs, stage, mutationObserving, elsewhere>>

\* The entry a ResizeObserver delivers for an element it began to observe.
firstObservation ==
    /\ resizeObserver.observing
    /\ ~resizeObserver.initialized
    /\ resizeObserver' = [resizeObserver EXCEPT !.initialized = TRUE]
    /\ lastOp' = "other"
    /\ lastHint' = NoItem
    /\ UNCHANGED <<pageVars, slotVars, listRefs, stage, mutationObserving,
                   scheduled, pending, lastDimensions, elsewhere>>

\* A child of the element is added or removed (one that is no item: the
\* content of the "more" slot), and the MutationObserver reports it.
childListMutation ==
    /\ mutationObserving
    /\ pending < MaxPending
    /\ handleChange(FALSE, 0, 0)
    /\ lastOp' = notification
    /\ lastHint' = NoItem
    /\ UNCHANGED <<pageVars, slotVars, listRefs, stage, resizeObserver,
                   mutationObserving, elsewhere>>

\* A mutant of scheduledReflow: the callback ends before it clears
\* #scheduled.
scheduledReflowKeepsFlag ==
    /\ pending > 0
    /\ reflowItems(NoItem)
    /\ scheduled' = scheduled
    /\ pending' = pending - 1
    /\ lastOp' = "reflow"
    /\ lastHint' = NoItem
    /\ UNCHANGED <<pageVars, listRefs, stage, elsewhere>>

\* The callback #handleChange gave to schedule()
scheduledReflow ==
    /\ pending > 0
    /\ reflowItems(NoItem)
    /\ scheduled' = FALSE
    /\ pending' = pending - 1
    /\ lastOp' = "reflow"
    /\ lastHint' = NoItem
    /\ UNCHANGED <<pageVars, listRefs, stage, elsewhere>>

\* A ReflowEvent reaches the element: the listener #initialize added
reflowListener(lastVisibleElement) ==
    /\ listRefs
    /\ reflowItems(lastVisibleElement)
    /\ reflowsRun' = reflowListeners
    /\ lastOp' = "reflow"
    /\ lastHint' = lastVisibleElement
    /\ UNCHANGED <<pageVars, listRefs, stage, scheduled, pending, listShadow,
                   templateParts, reflowListeners, listThrown, beyondList>>

\* attributeChangedCallback for `disabled`, newValue the attribute's value
\* (<<>>: the attribute was removed).  #reset and #reflowItems begin by
\* taking #refs apart, a TypeError while #initialize has not set it.
attributeChangedCallback(newValue) ==
    /\ newValue # <<>> \/ disabled # <<>>
    /\ disabled' = newValue
    /\ lastHint' = NoItem
    /\ IF ~listRefs
       THEN /\ listThrown' = TypeError
            /\ lastOp' = "other"
            /\ UNCHANGED <<slotVars, resizeObserver, mutationObserving,
                           lastDimensions, reflowsRun>>
       ELSE IF newValue = <<"true">>
       THEN /\ reset
            /\ listThrown' = ""
            /\ lastOp' = "reset"
            /\ UNCHANGED <<visibleElements, overflowingElements, moreHidden,
                           placeholder, minimumReached, dispatched,
                           lastDimensions, reflowsRun>>
       ELSE /\ reflowItems(NoItem)
            /\ reflowsRun' = 1
            /\ listThrown' = ""
            /\ lastOp' = "reflow"
    /\ UNCHANGED <<itemWidth, moreFirst, containerWidth, minimumItems, defer,
                   listRefs, stage, scheduled, pending, listShadow,
                   templateParts, reflowListeners, beyondList>>

\* showAll(), and the attributeChangedCallback that setting `disabled` runs
showAll ==
    /\ listRefs
    /\ placeholder' = [placeholder EXCEPT !.width = <<0>>, !.display = "none"]
    /\ disabled' = <<"true">>
    /\ reset
    /\ lastOp' = "showAll"
    /\ lastHint' = NoItem
    /\ UNCHANGED <<itemWidth, moreFirst, containerWidth, minimumItems, defer,
                   visibleElements, overflowingElements, moreHidden,
                   minimumReached, dispatched, listRefs, stage, scheduled,
                   pending, lastDimensions, elsewhere>>

(***************************************************************************)
(* debounce (src/assets/utilities.js, defined twice)                       *)
(***************************************************************************)
Definitions == {"debounce", "debounce (second definition)"}
ArgsChoices == 1..2

\* The function debounce returns has a cancel property.
hasCancel(def) == def = "debounce"

\* debounced(...args) / executedFunction(...args), at time `now`
debounced(args) ==
    /\ timeout' = <<[due |-> now + Wait, args |-> args]>>
    /\ lastCall' = <<[at |-> now, args |-> args, ran |-> FALSE]>>
    /\ cancelled' = FALSE
    /\ typeError' = FALSE
    /\ UNCHANGED <<definition, now, ran, throttleVars, domVars, compVars, regVars,
                   listVars, loaderVars, featureVars>>

\* The timer `timeout` names fires, not before it is due: fn.apply(this, args)
\* / later()
timerFires ==
    /\ timeout # <<>>
    /\ now >= timeout[1].due
    /\ ran' = Append(ran, [at |-> now, args |-> timeout[1].args])
    /\ timeout' = <<>>
    /\ lastCall' = <<[lastCall[1] EXCEPT !.ran = TRUE]>>
    /\ typeError' = FALSE
    /\ UNCHANGED <<definition, now, cancelled, throttleVars, domVars, compVars,
                   regVars, listVars, loaderVars, featureVars>>

\* debounced.cancel(): a TypeError where the function has no such property
cancel ==
    /\ cancelled' = TRUE
    /\ IF hasCancel(definition)
       THEN /\ timeout' = <<>>
            /\ typeError' = FALSE
       ELSE /\ typeError' = TRUE
            /\ UNCHANGED timeout
    /\ UNCHANGED <<definition, now, ran, lastCall, throttleVars, domVars, compVars,
                   regVars, listVars, loaderVars, featureVars>>

\* A millisecond passes.
tick ==
    /\ now < MaxTime
    /\ now' = now + 1
    /\ typeError' = FALSE
    /\ UNCHANGED <<definition, timeout, ran, lastCall, cancelled, throttleVars,
                   domVars, compVars, regVars, listVars, loaderVars, featureVars>>

(***************************************************************************)
(* A throttled function                                                    *)
(***************************************************************************)
ThrottleDefinitions == {"throttle", "throttle (second definition)"}

\* What the debounced function of this page leaves alone.
debounceVars == <<definition, timeout, lastCall>>

\* The condition under which a call runs fn:
\* now - lastCall >= delay / !inThrottle
mayRun(def) ==
    IF def = "throttle" THEN now - throttling.lastCall >= Wait
    ELSE ~throttling.inThrottle

\* throttled(...args) / the returned function, at time `now`
throttled(args) ==
    /\ Len(ran) < MaxRuns
    /\ IF mayRun(throttleDefinition)
       THEN /\ ran' = Append(ran, [at |-> now, args |-> args])
            /\ attempt' = <<[at |-> now, executed |-> TRUE]>>
            /\ IF throttleDefinition = "throttle"
               THEN /\ throttling' = [throttling EXCEPT !.lastCall = now]
                    /\ UNCHANGED release
               ELSE /\ throttling' = [throttling EXCEPT !.inThrottle = TRUE]
                    /\ release' = release \cup {now + Wait}
       ELSE /\ attempt' = <<[at |-> now, executed |-> FALSE]>>
            /\ UNCHANGED <<ran, throttling, release>>
    /\ typeError' = FALSE
    /\ UNCHANGED <<throttleDefinition, now, cancelled, debounceVars, domVars,
                   compVars, regVars, listVars, loaderVars, featureVars>>

\* A timer of the second definition fires, not before it is due:
\* inThrottle = false
releaseFires ==
    /\ \E due \in release :
          /\ now >= due
          /\ release' = release \ {due}
    /\ throttling' = [throttling EXCEPT !.inThrottle = FALSE]
    /\ typeError' = FALSE
    /\ UNCHANGED <<throttleDefinition, attempt, now, ran, cancelled, debounceVars,
                   domVars, compVars, regVars, listVars, loaderVars, featureVars>>

\* throttled.cancel(): a TypeError where the function has no such property
throttleCancel ==
    /\ cancelled' = TRUE
    /\ IF throttleDefinition = "throttle"
       THEN /\ throttling' = [throttling EXCEPT !.lastCall = now]
            /\ typeError' = FALSE
       ELSE /\ typeError' = TRUE
            /\ UNCHANGED throttling
    /\ UNCHANGED <<throttleDefinition, release, attempt, now, ran, debounceVars,
                   domVars, compVars, regVars, listVars, loaderVars, featureVars>>

(***************************************************************************)
(* The loader                                                              *)
(***************************************************************************)
\* The runs of loadVesselTheme: the one the page starts when the DOM is
\* ready, and one started through window.loadVesselTheme.
Runs == {1, 2}
DotJs == <<".", "j", "s">>
FileNames == { <<"a">> \o DotJs, <<"b">> \o DotJs, <<"c", ".", "c", "s", "s">> }

\* What the loader does not touch.
besidesLoader == <<domVars, compVars, regVars, listVars, definition, timeout, now,
                   ran, lastCall, cancelled, typeError, throttleVars,
                   featureVars>>

\* A mutant of nextScript: every entry counts.
nextScriptOfAny(from) ==
    IF from <= Len(componentFiles) THEN from ELSE Len(componentFiles) + 1

\* The loop of loadVesselTheme from entry `from` on: the first entry that
\* ends with '.js', Len(componentFiles) + 1 when there is none.
nextScript(from) ==
    LET js == { i \in from..Len(componentFiles) : endsWith(componentFiles[i], DotJs) }
    IN  IF js = {} THEN Len(componentFiles) + 1
        ELSE CHOOSE i \in js : \A j \in js : i <= j

\* Run r goes on from entry `from`: loadScript for the next '.js' entry, on
\* which it waits, or the event when the list is at its end.
continue(r, from) ==
    LET i == nextScript(from)
    IN  IF i <= Len(componentFiles)
        THEN /\ scripts' = Append(scripts, [run |-> r, entry |-> i, status |-> "loading"])
             /\ loads' = [loads EXCEPT ![r] = [state |-> "awaiting", index |-> i]]
             /\ UNCHANGED themeLoaded
        ELSE /\ loads' = [loads EXCEPT ![r] = [state |-> "done", index |-> i]]
             /\ themeLoaded' = [themeLoaded EXCEPT ![r] = @ + 1]
             /\ UNCHANGED scripts

\* loadVesselTheme() is called: by the page when the DOM is ready, or by
\* anyone through window.loadVesselTheme.
loadVesselTheme(r) ==
    /\ loads[r].state = "new"
    /\ continue(r, 1)
    /\ UNCHANGED <<componentFiles, besidesLoader>>

\* The script fires its load event: the promise resolves and the run that
\* waits for it goes on.
onload(k) ==
    /\ scripts[k].status = "loading"
    /\ \E loaded \in {[scripts EXCEPT ![k].status = "loaded"]} :
       \E r \in {scripts[k].run} :
       LET i == nextScript(scripts[k].entry + 1)
       IN  IF i <= Len(componentFiles)
           THEN /\ scripts' = Append(loaded, [run |-> r, entry |-> i, status |-> "loading"])
                /\ loads' = [loads EXCEPT ![r] = [state |-> "awaiting", index |-> i]]
                /\ UNCHANGED themeLoaded
           ELSE /\ scripts' = loaded
                /\ loads' = [loads EXCEPT ![r] = [state |-> "done", index |-> i]]
                /\ themeLoaded' = [themeLoaded EXCEPT ![r] = @ + 1]
    /\ UNCHANGED <<componentFiles, besidesLoader>>

\* A mutant of onerror: the run logs the error and loads the next script.
onerrorGoesOn(k) ==
    /\ scripts[k].status = "loading"
    /\ \E failed \in {[scripts EXCEPT ![k].status = "failed"]} :
       LET i == nextScript(scripts[k].entry + 1)
       IN  scripts' = IF i <= Len(componentFiles)
                      THEN Append(failed, [run |-> scripts[k].run, entry |-> i,
                                           status |-> "loading"])
                      ELSE failed
    /\ loads' = [loads EXCEPT ![scripts[k].run].state = "failed"]
    /\ UNCHANGED <<themeLoaded, componentFiles, besidesLoader>>

\* The script fires its error event: the promise rejects, and the run ends
\* in its catch clause.
onerror(k) ==
    /\ scripts[k].status = "loading"
    /\ scripts' = [scripts EXCEPT ![k].status = "failed"]
    /\ loads' = [loads EXCEPT ![scripts[k].run].state = "failed"]
    /\ UNCHANGED <<themeLoaded, componentFiles, besidesLoader>>

(***************************************************************************)
(* Pages: element 1, the host, is a Component at the top of the document;  *)
(* the other elements lie below it, in its light tree or in shadow trees.  *)
(***************************************************************************)
Host == 1

RECURSIVE ancestorsOrSelf(_, _)
ancestorsOrSelf(par, n) ==
    IF n = Doc THEN {} ELSE {n} \cup ancestorsOrSelf(par, par[n])

\* Ids in tree order: each element is placed under the element before it or
\* under one of that element's ancestors.
TreeShapes ==
    { par \in [Nodes -> {Doc} \cup Nodes] :
        /\ par[Host] = Doc
        /\ \A n \in Nodes \ {Host} :
              /\ par[n] < n
              /\ par[n] \in ancestorsOrSelf(par, n - 1) }

NoAttrs == [k \in EventKinds |-> <<>>]
NoBinding == [selector |-> <<>>, method |-> <<>>, data |-> "none", pairs |-> <<>>, scalar |-> <<>>]
RequiredRefsChoices == { <<>>, << <<"x">> >> }

InitComponents ==
    /\ refs = [n \in Nodes |-> <<>>]
    /\ connected = [n \in Nodes |-> FALSE]
    /\ idle = [n \in Nodes |-> 0]
    /\ observing = [n \in Nodes |-> {}]
    /\ records = [n \in Nodes |-> {}]

InitRegistry ==
    /\ initialized = FALSE
    /\ listeners = [k \in EventKinds |-> 0]
    /\ thrown = NoError
    /\ event = NoEvent
    /\ calls = <<>>
    /\ logged = <<>>

\* A page without an overflow list.
NoList ==
    /\ itemWidth = [i \in Items |-> 1]
    /\ moreFirst = FALSE
    /\ containerWidth = MaxWidth
    /\ minimumItems = <<>>
    /\ defer = FALSE
    /\ disabled = <<>>
    /\ slot = [i \in Items |-> DefaultSlot]
    /\ visibleElements = <<>>
    /\ overflowingElements = <<>>
    /\ moreHidden = FALSE
    /\ placeholder = [hidden |-> FALSE, width |-> <<>>, display |-> ""]
    /\ overflowCount = <<>>
    /\ counterReset = <<>>
    /\ minimumReached = FALSE
    /\ dispatched = <<>>
    /\ listRefs = FALSE
    /\ stage = "new"
    /\ resizeObserver = [observing |-> FALSE, initialized |-> FALSE]
    /\ mutationObserving = FALSE
    /\ scheduled = FALSE
    /\ pending = 0
    /\ lastDimensions = NoDimension
    /\ lastOp = "none"
    /\ lastHint = NoItem
    /\ listShadow = "attached"
    /\ templateParts = "valid"
    /\ reflowListeners = 0
    /\ reflowsRun = 0
    /\ listThrown = ""

\* A page that loads nothing.
NoLoader ==
    /\ componentFiles = <<>>
    /\ loads = [r \in Runs |-> [state |-> "new", index |-> 1]]
    /\ scripts = <<>>
    /\ themeLoaded = [r \in Runs |-> 0]

\* A page on which nothing is throttled.
NoThrottle ==
    /\ throttleDefinition = "throttle"
    /\ throttling = [lastCall |-> 0, inThrottle |-> FALSE]
    /\ release = {}
    /\ attempt = <<>>

\* A page that debounces, throttles and loads nothing.
NoTimers ==
    /\ definition = "debounce"
    /\ timeout = <<>>
    /\ now = 0
    /\ ran = <<>>
    /\ lastCall = <<>>
    /\ cancelled = FALSE
    /\ typeError = FALSE
    /\ NoThrottle
    /\ NoLoader

\* A page without a PaginatedList.
NoPages ==
    /\ allItems = <<>>
    /\ itemsPerPage = 10 * Unit
    /\ currentPage = 1
    /\ totalPages = <<>>
    /\ pageItems = <<>>

\* A page without the quick view and the newsletter popup in use.
NoCastle ==
    /\ modalActive = FALSE
    /\ popupActive = FALSE
    /\ bodyOverflow = ""
    /\ popupShown = FALSE
    /\ popupTimer = FALSE
    /\ fetches = <<>>
    /\ shown = 0
    /\ checked = <<>>
    /\ addToCartListeners = <<>>
    /\ buttonDisabled = FALSE
    /\ posts = <<>>
    /\ awaited = 0
    /\ castleOp = "none"

NoFeatures == NoPages /\ NoCastle

\* A page that debounces nothing.
NoDebounce == NoTimers /\ NoFeatures

\* A page without components.
NoComponents ==
    /\ parent = [n \in Nodes |-> n - 1]
    /\ inShadow = [n \in Nodes |-> FALSE]
    /\ kind = [n \in Nodes |-> "Plain"]
    /\ shadowRoot = [n \in Nodes |-> FALSE]
    /\ refAttr = [n \in Nodes |-> <<>>]
    /\ onAttr = [n \in Nodes |-> [k \in EventKinds |-> <<>>]]
    /\ binding = [selector |-> <<>>, method |-> <<>>, data |-> "none",
                  pairs |-> <<>>, scalar |-> <<>>]
    /\ requiredRefs = [n \in Nodes |-> <<>>]
    /\ refs = [n \in Nodes |-> <<>>]
    /\ connected = [n \in Nodes |-> FALSE]
    /\ idle = [n \in Nodes |-> 0]
    /\ observing = [n \in Nodes |-> {}]
    /\ records = [n \in Nodes |-> {}]
    /\ InitRegistry

\* Any page within the bounds, no ref required: the pages #updateRefs is
\* run on to see what it collects.
InitScan ==
    /\ parent \in TreeShapes
    /\ inShadow \in { f \in [Nodes -> BOOLEAN] : ~f[Host] }
    /\ kind \in { f \in [Nodes -> {"Plain", "Component", "TagComponent"}] :
                    f[Host] = "Component" }
    /\ shadowRoot \in { f \in [Nodes -> BOOLEAN] :
                          \A n \in Nodes : f[n] => hasTemplate(n) }
    /\ refAttr \in { f \in [Nodes -> RefAttrValues] : f[Host] = <<>> }
    /\ onAttr = [n \in Nodes |-> NoAttrs]
    /\ binding = NoBinding
    /\ requiredRefs = [n \in Nodes |-> <<>>]
    /\ InitComponents
    /\ InitRegistry
    /\ NoList
    /\ NoDebounce

NextScan ==
    \/ connectedCallback(Host)
    \/ updatedCallback(Host)

SpecScan == InitScan /\ [][NextScan]_vars

\* Flat pages: every other element is a plain child of the host, the first
\* of them in its light tree or in its shadow tree, the others in its light
\* tree; the host may require the ref `x`.  Scripts then connect, re-render
\* and disconnect the host and change `ref` attributes, in any order.
Init ==
    /\ parent = [n \in Nodes |-> IF n = Host THEN Doc ELSE Host]
    /\ inShadow \in { f \in [Nodes -> BOOLEAN] : \A n \in Nodes : f[n] => n = Host + 1 }
    /\ kind = [n \in Nodes |-> IF n = Host THEN "Component" ELSE "Plain"]
    /\ shadowRoot \in { f \in [Nodes -> BOOLEAN] :
                          \A n \in Nodes : f[n] => hasTemplate(n) }
    /\ refAttr \in { f \in [Nodes -> SingularRefAttrValues] : f[Host] = <<>> }
    /\ onAttr = [n \in Nodes |-> NoAttrs]
    /\ binding = NoBinding
    /\ requiredRefs \in { f \in [Nodes -> RequiredRefsChoices] :
                            \A n \in Nodes \ {Host} : f[n] = <<>> }
    /\ InitComponents
    /\ InitRegistry
    /\ NoList
    /\ NoDebounce

Next ==
    \/ connectedCallback(Host)
    \/ idleCallback(Host)
    \/ updatedCallback(Host)
    \/ disconnectedCallback(Host)
    \/ mutationObserverCallback(Host)
    \/ \E n \in Nodes \ {Host}, value \in SingularRefAttrValues :
          setRefAttribute(n, value)

Spec == Init /\ [][Next]_vars

(***************************************************************************)
(* Pages whose elements come and go: the host above plain elements and,    *)
(* maybe, a nested component (element 2), in light trees; elements carry   *)
(* the ref `a` or none.  Scripts connect and disconnect the host, change   *)
(* `ref` attributes, remove elements and insert removed ones, and the      *)
(* observer's callback gets up to BatchSize records at a time.             *)
(***************************************************************************)
BatchSize == 2
RefOrNone == { <<>>, << <<"a">> >> }

InitMutations ==
    /\ parent \in TreeShapes
    /\ inShadow = [n \in Nodes |-> FALSE]
    /\ kind \in { f \in [Nodes -> {"Component", "Plain"}] :
                    /\ f[Host] = "Component"
                    /\ \A n \in Nodes \ {Host, Host + 1} : f[n] = "Plain" }
    /\ shadowRoot = [n \in Nodes |-> FALSE]
    /\ refAttr \in { f \in [Nodes -> RefOrNone] : f[Host] = <<>> }
    /\ onAttr = [n \in Nodes |-> NoAttrs]
    /\ binding = NoBinding
    /\ requiredRefs = [n \in Nodes |-> <<>>]
    /\ InitComponents
    /\ InitRegistry
    /\ NoList
    /\ NoDebounce

NextMutations ==
    \/ connectedCallback(Host)
    \/ idleCallback(Host)
    \/ disconnectedCallback(Host)
    \/ mutationObserverCallback(Host)
    \/ /\ Cardinality(records[Host]) < BatchSize
       /\ \/ \E n \in Nodes \ {Host}, value \in RefOrNone : setRefAttribute(n, value)
          \/ \E n \in Nodes \ {Host} : removeChild(n)
          \/ \E p \in Nodes, n \in Nodes \ {Host} : insertBefore(p, n)

SpecMutations == InitMutations /\ [][NextMutations]_vars

(***************************************************************************)
(* The registry on a page of nested components                             *)
(***************************************************************************)
SaveAttr == << <<"/">> \o save >>

\* Elements whose only `on:` attribute is on:click, with the values given.
onClick(click) == [n \in Nodes |-> [NoAttrs EXCEPT !["click"] = click[n]]]

\* A chain of Components, each the only child of the one before it and each
\* carrying on:click="/save".  The page connects and disconnects them in any
\* order; clicks arrive at the outermost and at the innermost element, and
\* the methods they reach may throw.
InitEvents ==
    /\ parent = [n \in Nodes |-> n - 1]
    /\ inShadow = [n \in Nodes |-> FALSE]
    /\ kind = [n \in Nodes |-> "Component"]
    /\ shadowRoot = [n \in Nodes |-> FALSE]
    /\ refAttr = [n \in Nodes |-> <<>>]
    /\ onAttr = onClick([n \in Nodes |-> SaveAttr])
    /\ binding = NoBinding
    /\ requiredRefs = [n \in Nodes |-> <<>>]
    /\ InitComponents
    /\ InitRegistry
    /\ NoList
    /\ NoDebounce

NextEvents ==
    \/ \E c \in Components : connectedCallback(c)
    \/ \E c \in Components : idleCallback(c)
    \/ \E c \in Components : disconnectedCallback(c)
    \/ \E n \in {Host, NumNodes}, outcome \in {"returns", "throws"} :
          dispatchEvent("click", n, TRUE, outcome)

SpecEvents == InitEvents /\ [][NextEvents]_vars

(***************************************************************************)
(* Clicks on a page of any elements                                        *)
(***************************************************************************)
\* A chain of elements below the host, each of any kind and in the light or
\* the (attached) shadow tree of the one before it, any of them carrying
\* on:click="/save".  The host connects; clicks, bubbling or not, arrive at
\* any element.
InitDispatch ==
    /\ parent = [n \in Nodes |-> n - 1]
    /\ inShadow \in { f \in [Nodes -> BOOLEAN] : ~f[Host] }
    /\ kind \in { f \in [Nodes -> {"Plain", "Component", "TagComponent"}] :
                    f[Host] = "Component" }
    /\ shadowRoot = [n \in Nodes |-> hasTemplate(n)]
    /\ refAttr = [n \in Nodes |-> <<>>]
    /\ onAttr \in { onClick(click) : click \in [Nodes -> {<<>>, SaveAttr}] }
    /\ binding = NoBinding
    /\ requiredRefs = [n \in Nodes |-> <<>>]
    /\ InitComponents
    /\ InitRegistry
    /\ NoList
    /\ NoDebounce

NextDispatch ==
    \/ connectedCallback(Host)
    \/ \E n \in Nodes, bubbles \in BOOLEAN :
          dispatchEvent("click", n, bubbles, "returns")

SpecDispatch == InitDispatch /\ [][NextDispatch]_vars

(***************************************************************************)
(* Pointer events on a page of components                                  *)
(***************************************************************************)
PointerKinds == {"click", "pointerenter", "pointerleave"}

\* The on: attributes of an element carrying "/save" for the kinds in carried.
onKinds(carried) ==
    [n \in Nodes |-> [k \in EventKinds |->
                        IF k \in carried[n] THEN SaveAttr ELSE <<>>]]

\* A chain of Components, each in the light or the shadow tree of the one
\* before it, carrying on:pointerenter, or on:click and on:pointerleave, or
\* none of them.  The host connects; events of the three kinds, bubbling or not,
\* arrive at any element.
InitPointer ==
    /\ parent = [n \in Nodes |-> n - 1]
    /\ inShadow \in { f \in [Nodes -> BOOLEAN] : ~f[Host] }
    /\ kind = [n \in Nodes |-> "Component"]
    /\ shadowRoot = [n \in Nodes |-> hasTemplate(n)]
    /\ refAttr = [n \in Nodes |-> <<>>]
    /\ onAttr \in { onKinds(carried) :
                      carried \in [Nodes -> {{}, {"pointerenter"},
                                             {"click", "pointerleave"}}] }
    /\ binding = NoBinding
    /\ requiredRefs = [n \in Nodes |-> <<>>]
    /\ InitComponents
    /\ InitRegistry
    /\ NoList
    /\ NoDebounce

NextPointer ==
    \/ connectedCallback(Host)
    \/ \E type \in PointerKinds, n \in Nodes, bubbles \in BOOLEAN :
          dispatchEvent(type, n, bubbles, "returns")

SpecPointer == InitPointer /\ [][NextPointer]_vars

(***************************************************************************)
(* Events of bubbling and non-bubbling kinds                               *)
(***************************************************************************)
FallbackKinds == {"click", "focus", "toggle", "pointerenter"}

\* A chain of Components, each in the light or the shadow tree of the one
\* before it, carrying the on: attributes of all four kinds or none.  The
\* host connects; events of the four kinds, bubbling or not, arrive at any
\* element.
InitKinds ==
    /\ parent = [n \in Nodes |-> n - 1]
    /\ inShadow \in { f \in [Nodes -> BOOLEAN] : ~f[Host] }
    /\ kind = [n \in Nodes |-> "Component"]
    /\ shadowRoot = [n \in Nodes |-> hasTemplate(n)]
    /\ refAttr = [n \in Nodes |-> <<>>]
    /\ onAttr \in { onKinds(carried) :
                      carried \in [Nodes -> {{}, FallbackKinds}] }
    /\ binding = NoBinding
    /\ requiredRefs = [n \in Nodes |-> <<>>]
    /\ InitComponents
    /\ InitRegistry
    /\ NoList
    /\ NoDebounce

NextKinds ==
    \/ connectedCallback(Host)
    \/ \E type \in FallbackKinds, n \in Nodes, bubbles \in BOOLEAN :
          dispatchEvent(type, n, bubbles, "returns")

SpecKinds == InitKinds /\ [][NextKinds]_vars

(***************************************************************************)
(* The attribute values: [selector]/method[?data|/data]                    *)
(***************************************************************************)
amount == <<"a", "m", "o", "u", "n", "t">>
Keys == { amount, <<"k">> }
ValueTexts ==
    { <<"t", "r", "u", "e">>, <<"f", "a", "l", "s", "e">>, <<"2">>,
      <<"2", "0">>, <<"a">>, <<>>, <<" ">> }
SelectorChoices == { <<>>, <<"#", "1">>, <<"c">> }
PairSeqs == UNION { [1..k -> Keys \X ValueTexts] : k \in 0..MaxPairs }

Bindings ==
    { [selector |-> sel, method |-> setQty, data |-> "none",
       pairs |-> <<>>, scalar |-> <<>>] : sel \in SelectorChoices }
    \cup
    { [selector |-> sel, method |-> setQty, data |-> "query",
       pairs |-> ps, scalar |-> <<>>] : sel \in SelectorChoices, ps \in PairSeqs }
    \cup
    { [selector |-> sel, method |-> setQty, data |-> "scalar",
       pairs |-> <<>>, scalar |-> text] :
         sel \in SelectorChoices, text \in ValueTexts }

\* key=value&key=value...
RECURSIVE queryString(_)
queryString(pairs) ==
    IF pairs = <<>> THEN <<>>
    ELSE Head(pairs)[1] \o <<"=">> \o Head(pairs)[2]
            \o (IF Len(pairs) > 1 THEN <<"&">> ELSE <<>>)
            \o queryString(Tail(pairs))

\* The text of the attribute value a binding is written as.
attributeText(b) ==
    b.selector \o <<"/">> \o b.method
       \o (CASE b.data = "query" -> <<"?">> \o queryString(b.pairs)
             [] b.data = "scalar" -> <<"/">> \o b.scalar
             [] OTHER -> <<>>)

\* The host alone carries on:click, with any binding within the bounds; the
\* other elements are its plain children.  The host connects and is clicked.
InitParse ==
    /\ binding \in Bindings
    /\ parent = [n \in Nodes |-> IF n = Host THEN Doc ELSE Host]
    /\ inShadow = [n \in Nodes |-> FALSE]
    /\ kind = [n \in Nodes |-> IF n = Host THEN "Component" ELSE "Plain"]
    /\ shadowRoot = [n \in Nodes |-> FALSE]
    /\ refAttr = [n \in Nodes |-> <<>>]
    /\ onAttr = [n \in Nodes |->
                   IF n = Host
                   THEN [NoAttrs EXCEPT !["click"] = <<attributeText(binding)>>]
                   ELSE NoAttrs]
    /\ requiredRefs = [n \in Nodes |-> <<>>]
    /\ InitComponents
    /\ InitRegistry
    /\ NoList
    /\ NoDebounce

NextParse ==
    \/ connectedCallback(Host)
    \/ dispatchEvent("click", Host, TRUE, "returns")

SpecParse == InitParse /\ [][NextParse]_vars

(***************************************************************************)
(* The instance a binding names                                            *)
(***************************************************************************)
TargetSelectors == { <<>>, <<"#", "2">>, <<"c">>, <<"p">> }
notAMethod == <<"x">>
TargetBindings ==
    { [selector |-> sel, method |-> m, data |-> "none",
       pairs |-> <<>>, scalar |-> <<>>] :
         sel \in TargetSelectors, m \in {setQty, notAMethod} }
    \cup
    { [selector |-> sel, method |-> m, data |-> "query",
       pairs |-> << <<amount, <<"2">>>> >>, scalar |-> <<>>] :
         sel \in TargetSelectors, m \in {setQty, notAMethod} }

\* A chain of elements below the host, each of any kind and in the light or
\* the shadow tree of the one before it; one of them carries on:click with
\* a binding of any selector, with a method the components define or one
\* they do not, with or without data.  The host connects; clicks arrive at
\* any element, and the method they reach may throw.
InitTarget ==
    /\ binding \in TargetBindings
    /\ parent = [n \in Nodes |-> n - 1]
    /\ inShadow \in { f \in [Nodes -> BOOLEAN] : ~f[Host] }
    /\ kind \in { f \in [Nodes -> {"Plain", "Component", "TagComponent"}] :
                    f[Host] = "Component" }
    /\ shadowRoot = [n \in Nodes |-> hasTemplate(n)]
    /\ refAttr = [n \in Nodes |-> <<>>]
    /\ \E carrier \in Nodes :
          onAttr = [n \in Nodes |->
                      IF n = carrier
                      THEN [NoAttrs EXCEPT
                              !["click"] = <<attributeText(binding)>>]
                      ELSE NoAttrs]
    /\ requiredRefs = [n \in Nodes |-> <<>>]
    /\ InitComponents
    /\ InitRegistry
    /\ NoList
    /\ NoDebounce

NextTarget ==
    \/ connectedCallback(Host)
    \/ \E n \in Nodes, outcome \in {"returns", "throws"} :
          dispatchEvent("click", n, TRUE, outcome)

SpecTarget == InitTarget /\ [][NextTarget]_vars

(***************************************************************************)
(* An overflow list on its page                                            *)
(***************************************************************************)
MinimumItemsChoices == { <<>>, <<1>>, <<2>> }

\* An element whose shadow root the parser attached, all parts in place.
ParsedTemplate ==
    /\ listShadow = "attached"
    /\ templateParts = "valid"

\* An element that has not connected yet.
NewList ==
    /\ disabled = <<>>
    /\ slot = [i \in Items |-> DefaultSlot]
    /\ visibleElements = <<>>
    /\ overflowingElements = <<>>
    /\ moreHidden = FALSE
    /\ placeholder = [hidden |-> FALSE, width |-> <<>>, display |-> ""]
    /\ overflowCount = <<>>
    /\ counterReset = <<>>
    /\ minimumReached = FALSE
    /\ dispatched = <<>>
    /\ listRefs = FALSE
    /\ stage = "new"
    /\ resizeObserver = [observing |-> FALSE, initialized |-> FALSE]
    /\ mutationObserving = FALSE
    /\ scheduled = FALSE
    /\ pending = 0
    /\ lastDimensions = NoDimension
    /\ lastOp = "none"
    /\ lastHint = NoItem
    /\ reflowListeners = 0
    /\ reflowsRun = 0
    /\ listThrown = ""

InitList == NewList /\ ParsedTemplate

\* An <overflow-list> of NumItems items of one width with its shadow
\* template, deferred or not, with or without a minimum.  It connects and
\* starts; the page resizes it, changes its children, asks for reflows
\* that keep an item visible, calls showAll(), and removes it.
InitOverflow ==
    /\ itemWidth = [i \in Items |-> 1]
    /\ moreFirst \in BOOLEAN
    /\ containerWidth \in 1..MaxWidth
    /\ minimumItems \in MinimumItemsChoices
    /\ defer \in BOOLEAN
    /\ InitList
    /\ NoComponents
    /\ NoDebounce

NextOverflow ==
    \/ listConnectedCallback
    \/ listIdleCallback
    \/ deferredReflow
    \/ OverflowList_disconnectedCallback
    \/ \E width \in 0..MaxWidth : resize(width)
    \/ firstObservation
    \/ childListMutation
    \/ scheduledReflow
    \/ \E el \in Items : reflowListener(el)
    \/ showAll

SpecOverflow == InitOverflow /\ [][NextOverflow]_vars

(***************************************************************************)
(* An overflow list from its parsing on                                    *)
(***************************************************************************)
DisabledValues == { <<"true">>, <<"false">>, <<>> }

\* An <overflow-list> of NumItems items of one width, deferred or not, whose
\* shadow root is attached, is still a template child, or has not been
\* parsed yet, and whose template has its parts or lacks one or has one of
\* the wrong type.  It connects and starts, at once or later; the page sets
\* and removes `disabled`, asks for reflows, resizes the element, changes
\* its children, removes it and attaches it again.
InitLifecycle ==
    /\ itemWidth = [i \in Items |-> 1]
    /\ moreFirst = FALSE
    /\ containerWidth \in {1, MaxWidth}
    /\ minimumItems = <<>>
    /\ defer \in BOOLEAN
    /\ NewList
    /\ listShadow \in {"attached", "template", "none"}
    /\ templateParts \in {"valid", "missing", "wrongType"}
    /\ NoComponents
    /\ NoDebounce

NextLifecycle ==
    \/ \E from \in {"new", "removed"} : listConnected(from)
    \/ listIdleCallback
    \/ deferredReflow
    \/ initializeTimeout
    \/ parserAttaches
    \/ OverflowList_disconnectedCallback
    \/ \E newValue \in DisabledValues : attributeChangedCallback(newValue)
    \/ \E el \in Items : reflowListener(el)
    \/ \E width \in {1, MaxWidth} : resize(width)
    \/ firstObservation
    \/ childListMutation
    \/ scheduledReflow

SpecLifecycle == InitLifecycle /\ [][NextLifecycle]_vars

\* The scheduler runs every callback it was given: an idle callback, or a
\* timeout after an animation frame.
FairLifecycle == SpecLifecycle /\ WF_vars(scheduledReflow)

(***************************************************************************)
(* The layout of an overflow list                                          *)
(***************************************************************************)
\* An <overflow-list> of items of any widths, not deferred, without a
\* minimum.  It connects; the page resizes it and asks for reflows that
\* keep an item visible.
InitLayout ==
    /\ itemWidth \in [Items -> ItemWidths]
    /\ moreFirst \in BOOLEAN
    /\ containerWidth \in 1..MaxWidth
    /\ minimumItems = <<>>
    /\ defer = FALSE
    /\ InitList
    /\ NoComponents
    /\ NoDebounce

NextLayout ==
    \/ listConnectedCallback
    \/ \E width \in 0..MaxWidth : resize(width)
    \/ firstObservation
    \/ scheduledReflow
    \/ \E el \in Items : reflowListener(el)

SpecLayout == InitLayout /\ [][NextLayout]_vars

(***************************************************************************)
(* showAll() and the resizes after it                                      *)
(***************************************************************************)
\* As InitOverflow, not deferred.  Once showAll() was called, the page only
\* resizes the element.
InitShowAll ==
    /\ itemWidth = [i \in Items |-> 1]
    /\ moreFirst \in BOOLEAN
    /\ containerWidth \in 1..MaxWidth
    /\ minimumItems \in MinimumItemsChoices
    /\ defer = FALSE
    /\ InitList
    /\ NoComponents
    /\ NoDebounce

NextShowAll ==
    \/ listConnectedCallback
    \/ \E width \in 0..MaxWidth : resize(width)
    \/ firstObservation
    \/ scheduledReflow
    \/ showAll

SpecShowAll == InitShowAll /\ [][NextShowAll]_vars

(***************************************************************************)
(* A debounced function                                                    *)
(***************************************************************************)
InitDebounce ==
    /\ definition \in Definitions
    /\ timeout = <<>>
    /\ now = 0
    /\ ran = <<>>
    /\ lastCall = <<>>
    /\ cancelled = FALSE
    /\ typeError = FALSE
    /\ NoThrottle
    /\ NoLoader
    /\ NoComponents
    /\ NoList
    /\ NoFeatures

NextDebounce ==
    \/ \E args \in ArgsChoices : debounced(args)
    \/ timerFires
    \/ cancel
    \/ tick

SpecDebounce == InitDebounce /\ [][NextDebounce]_vars

(***************************************************************************)
(* A throttled function, made one millisecond after the time origin of     *)
(* performance.now(), called and cancelled at any time.                    *)
(***************************************************************************)
InitThrottle ==
    /\ throttleDefinition \in ThrottleDefinitions
    /\ throttling = [lastCall |-> 0, inThrottle |-> FALSE]
    /\ release = {}
    /\ attempt = <<>>
    /\ now = 1
    /\ ran = <<>>
    /\ cancelled = FALSE
    /\ typeError = FALSE
    /\ definition = "debounce"
    /\ timeout = <<>>
    /\ lastCall = <<>>
    /\ NoLoader
    /\ NoComponents
    /\ NoList
    /\ NoFeatures

NextThrottle ==
    \/ \E args \in ArgsChoices : throttled(args)
    \/ releaseFires
    \/ throttleCancel
    \/ tick

SpecThrottle == InitThrottle /\ [][NextThrottle]_vars

(***************************************************************************)
(* The loader with a list of up to MaxFiles file names, some of them no    *)
(* scripts, and two runs of loadVesselTheme.                               *)
(***************************************************************************)
InitLoader ==
    /\ componentFiles \in UNION { [1..n -> FileNames] : n \in 0..MaxFiles }
    /\ loads = [r \in Runs |-> [state |-> "new", index |-> 1]]
    /\ scripts = <<>>
    /\ themeLoaded = [r \in Runs |-> 0]
    /\ definition = "debounce"
    /\ timeout = <<>>
    /\ now = 0
    /\ ran = <<>>
    /\ lastCall = <<>>
    /\ cancelled = FALSE
    /\ typeError = FALSE
    /\ NoThrottle
    /\ NoComponents
    /\ NoList
    /\ NoFeatures

NextLoader ==
    \/ \E r \in Runs : loadVesselTheme(r)
    \/ \E k \in DOMAIN scripts : onload(k)
    \/ \E k \in DOMAIN scripts : onerror(k)

SpecLoader == InitLoader /\ [][NextLoader]_vars

(***************************************************************************)
(* PaginatedList                                                           *)
(***************************************************************************)
\* Math.ceil(a / b) for a >= 0 and b > 0
ceil(a, b) == (a + b - 1) \div b

\* ToIntegerOrInfinity of a number that is not negative, given in units
toInteger(x) == x \div Unit

\* Array.prototype.slice(start, end) for arguments that are not negative,
\* given in units: both are truncated and clamped to the length.
slice(array, start, end) ==
    LET from == IF toInteger(start) < Len(array) THEN toInteger(start) ELSE Len(array)
        to == IF toInteger(end) < Len(array) THEN toInteger(end) ELSE Len(array)
    IN  IF from < to THEN SubSeq(array, from + 1, to) ELSE <<>>

getTotalPages(totalItems) == ceil(totalItems * Unit, itemsPerPage)

\* A mutant of getPageItems: the pages are counted from 0.
getPageItemsFromZero(array) ==
    LET startIndex == currentPage * itemsPerPage
        endIndex == startIndex + itemsPerPage
    IN  slice(array, startIndex, endIndex)

getPageItems(array) ==
    LET startIndex == (currentPage - 1) * itemsPerPage
        endIndex == startIndex + itemsPerPage
    IN  slice(array, startIndex, endIndex)

\* What a PaginatedList does not touch.
besidesPages ==
    <<domVars, compVars, regVars, listVars, definition, timeout, now, ran,
      lastCall, cancelled, typeError, throttleVars, loaderVars, castleVars>>

\* setItemsPerPage(items); what was returned for the setting before is
\* forgotten.
setItemsPerPage(perPage) ==
    /\ itemsPerPage' = perPage
    /\ totalPages' = <<>>
    /\ pageItems' = <<>>
    /\ UNCHANGED <<allItems, currentPage, besidesPages>>

setCurrentPage(page) ==
    /\ currentPage' = page
    /\ UNCHANGED <<allItems, itemsPerPage, totalPages, pageItems, besidesPages>>

\* getTotalPages(allItems.length) is called.
totalPagesAsked ==
    /\ totalPages' = <<getTotalPages(Len(allItems))>>
    /\ UNCHANGED <<allItems, itemsPerPage, currentPage, pageItems, besidesPages>>

\* getPageItems(allItems) is called.
pageItemsAsked ==
    /\ pageItems' = [p \in DOMAIN pageItems \cup {currentPage} |->
                        IF p = currentPage THEN getPageItems(allItems)
                        ELSE pageItems[p]]
    /\ UNCHANGED <<allItems, itemsPerPage, currentPage, totalPages, besidesPages>>

\* A PaginatedList with any number of items per page from 1 on, whole or
\* not, and an array of up to MaxLen items.  The page sets the number of
\* items per page and the current page and asks for the number of pages
\* and for the items of the current page.
InitPages ==
    /\ allItems \in { [i \in 1..n |-> i] : n \in 0..MaxLen }
    /\ itemsPerPage \in Unit..(MaxPerPage * Unit)
    /\ currentPage = 1
    /\ totalPages = <<>>
    /\ pageItems = <<>>
    /\ NoCastle
    /\ NoTimers
    /\ NoComponents
    /\ NoList

NextPages ==
    \/ \E perPage \in Unit..(MaxPerPage * Unit) : setItemsPerPage(perPage)
    \/ \E page \in 1..MaxLen : setCurrentPage(page)
    \/ totalPagesAsked
    \/ pageItemsAsked

SpecPages == InitPages /\ [][NextPages]_vars

(***************************************************************************)
(* CastleThemeFeatures: the quick view and the newsletter popup            *)
(***************************************************************************)
Products == {1, 2}
NoProduct == 0
\* product.variants: two variants per product, [product, number] each.
variants(product) == << <<product, 1>>, <<product, 2>> >>

\* What CastleThemeFeatures does not touch.
besidesCastle ==
    <<domVars, compVars, regVars, listVars, definition, timeout, now, ran,
      lastCall, cancelled, typeError, throttleVars, loaderVars, pagedVars>>

\* A click on a [data-quick-view] button: openQuickView(productId) up to its
\* await of fetch.
openQuickView(productId) ==
    /\ Len(fetches) + Len(addToCartListeners) < MaxOpenings
    /\ fetches' = Append(fetches, productId)
    /\ castleOp' = "open"
    /\ UNCHANGED <<modalActive, popupActive, bodyOverflow, popupShown, popupTimer,
                   shown, checked, addToCartListeners, buttonDisabled, posts,
                   awaited, besidesCastle>>

\* setupQuickViewAddToCart(product): one more click listener on the button.
setupQuickViewAddToCart(product) == Append(addToCartListeners, product)

without(seq, k) == [i \in 1..(Len(seq) - 1) |-> IF i < k THEN seq[i] ELSE seq[i + 1]]

\* The k-th awaited product arrives: openQuickView goes on with
\* populateQuickView, which replaces the variants and sets up add-to-cart,
\* and shows the modal.
productLoaded(k) ==
    /\ k \in DOMAIN fetches
    /\ fetches' = without(fetches, k)
    /\ shown' = fetches[k]
    /\ checked' = <<>>
    /\ addToCartListeners' = setupQuickViewAddToCart(fetches[k])
    /\ modalActive' = TRUE
    /\ bodyOverflow' = "hidden"
    /\ castleOp' = "loaded"
    /\ UNCHANGED <<popupActive, popupShown, popupTimer, buttonDisabled, posts,
                   awaited, besidesCastle>>

\* The k-th awaited product fails to load: openQuickView ends in its catch.
productFailed(k) ==
    /\ k \in DOMAIN fetches
    /\ fetches' = without(fetches, k)
    /\ castleOp' = "failed"
    /\ UNCHANGED <<modalActive, popupActive, bodyOverflow, popupShown, popupTimer,
                   shown, checked, addToCartListeners, buttonDisabled, posts,
                   awaited, besidesCastle>>

\* The visitor checks the radio input of a variant of the product shown.
variantChecked(i) ==
    /\ shown # NoProduct
    /\ checked' = <<variants(shown)[i]>>
    /\ castleOp' = "checked"
    /\ UNCHANGED <<modalActive, popupActive, bodyOverflow, popupShown, popupTimer,
                   fetches, shown, addToCartListeners, buttonDisabled, posts,
                   awaited, besidesCastle>>

\* The variant a listener set up for product POSTs: the checked one, else
\* the product's first.
variantId(product) == IF checked # <<>> THEN checked[1] ELSE variants(product)[1]

\* A click on the add-to-cart button: every listener on it runs up to its
\* await of fetch('/cart/add.js').
addToCartClicked ==
    /\ modalActive
    /\ ~buttonDisabled
    /\ awaited + Len(addToCartListeners) <= MaxPosts
    /\ posts' = [i \in DOMAIN addToCartListeners |->
                    variantId(addToCartListeners[i])]
    /\ awaited' = awaited + Len(addToCartListeners)
    /\ buttonDisabled' = (addToCartListeners # <<>>)
    /\ castleOp' = "addToCart"
    /\ UNCHANGED <<modalActive, popupActive, bodyOverflow, popupShown, popupTimer,
                   fetches, shown, checked, addToCartListeners, besidesCastle>>

\* The response to a POST arrives (ok or not) or the POST fails: the
\* listener closes the quick view on an ok response and enables the button.
cartResponded(ok) ==
    /\ awaited > 0
    /\ awaited' = awaited - 1
    /\ buttonDisabled' = FALSE
    /\ modalActive' = IF ok THEN FALSE ELSE modalActive
    /\ bodyOverflow' = IF ok THEN "" ELSE bodyOverflow
    /\ castleOp' = "responded"
    /\ UNCHANGED <<popupActive, popupShown, popupTimer, fetches, shown, checked,
                   addToCartListeners, posts, besidesCastle>>

\* closeQuickView(), on a click on a close button or on the overlay and on
\* every Escape keydown in the document.
closeQuickView ==
    /\ modalActive' = FALSE
    /\ bodyOverflow' = ""
    /\ castleOp' = "closed"
    /\ UNCHANGED <<popupActive, popupShown, popupTimer, fetches, shown, checked,
                   addToCartListeners, buttonDisabled, posts, awaited,
                   besidesCastle>>

\* showNewsletterPopup()
showNewsletterPopup ==
    /\ popupActive' = TRUE
    /\ bodyOverflow' = "hidden"
    /\ popupShown' = TRUE

\* The timeout of initNewsletterPopup fires.
newsletterTimeout ==
    /\ popupTimer
    /\ popupTimer' = FALSE
    /\ castleOp' = "timeout"
    /\ IF ~popupShown THEN showNewsletterPopup
       ELSE UNCHANGED <<popupActive, bodyOverflow, popupShown>>
    /\ UNCHANGED <<modalActive, fetches, shown, checked, addToCartListeners,
                   buttonDisabled, posts, awaited, besidesCastle>>

\* hideNewsletterPopup(), on a click on a close button or on the overlay
hideNewsletterPopup ==
    /\ popupActive
    /\ popupActive' = FALSE
    /\ bodyOverflow' = ""
    /\ castleOp' = "hidden"
    /\ UNCHANGED <<modalActive, popupShown, popupTimer, fetches, shown, checked,
                   addToCartListeners, buttonDisabled, posts, awaited,
                   besidesCastle>>

\* The page after `new CastleThemeFeatures()`: the modal and the popup
\* closed, the popup's timeout running, the popup shown on an earlier visit
\* or not.  The visitor opens quick views, whose products arrive in any
\* order or fail, checks variants, adds to the cart, and closes the modal
\* and the popup.
InitCastle ==
    /\ modalActive = FALSE
    /\ popupActive = FALSE
    /\ bodyOverflow = ""
    /\ popupShown \in BOOLEAN
    /\ popupTimer = TRUE
    /\ fetches = <<>>
    /\ shown = NoProduct
    /\ checked = <<>>
    /\ addToCartListeners = <<>>
    /\ buttonDisabled = FALSE
    /\ posts = <<>>
    /\ awaited = 0
    /\ castleOp = "none"
    /\ NoPages
    /\ NoTimers
    /\ NoComponents
    /\ NoList

NextCastle ==
    \/ \E productId \in Products : openQuickView(productId)
    \/ \E k \in DOMAIN fetches : productLoaded(k)
    \/ \E k \in DOMAIN fetches : productFailed(k)
    \/ \E i \in 1..2 : variantChecked(i)
    \/ addToCartClicked
    \/ \E ok \in BOOLEAN : cartResponded(ok)
    \/ closeQuickView
    \/ newsletterTimeout
    \/ hideNewsletterPopup

SpecCastle == InitCastle /\ [][NextCastle]_vars

(***************************************************************************)
(* What the statements below speak of, said without the code's operators   *)
(***************************************************************************)
componentLike(n) == kind[n] \in {"Component", "TagComponent"}

\* The nearest component strictly above element n, crossing shadow roots
\* to their hosts (Null: none).  Ancestors have smaller ids than n.
nearestComponentAbove(n) ==
    LET above == { a \in ancestorsOrSelf(parent, parent[n]) : componentLike(a) }
    IN  IF above = {} THEN Null
        ELSE CHOOSE a \in above : \A b \in above : b <= a

\* n lies in c's light tree, or in the tree of c's attached shadow root.
RECURSIVE inSubtree(_, _)
inSubtree(c, n) ==
    IF parent[n] = c THEN ~inShadow[n] \/ shadowRoot[c]
    ELSE parent[n] # Doc /\ ~inShadow[n] /\ inSubtree(c, parent[n])

inShadowTree(c, n) == inSubtree(c, n) /\ inTree(ShadowRootOf(c), n)

\* The ref-carrying elements of c's own subtree.
ownRefElements(c) ==
    { n \in Nodes : /\ Len(refAttr[n]) = 1
                    /\ inSubtree(c, n)
                    /\ nearestComponentAbove(n) = c }

refNameOf(n) == refAttr[n][1]
isPlural(n) == endsWith(refNameOf(n), <<"[", "]">>)
singularOwn(c) == { n \in ownRefElements(c) : ~isPlural(n) }
pluralOwn(c) == { n \in ownRefElements(c) : isPlural(n) }
pluralBase(n) == SubSeq(refNameOf(n), 1, Len(refNameOf(n)) - 2)

\* The elements named in a refs mapping.
elementsIn(mapping) ==
    UNION { Range(mapping[key].els) : key \in DOMAIN mapping }

\* list holds exactly the elements of S, each once, and elements of one
\* tree (light, or the host's shadow tree) stand in document order.
listsInDocumentOrder(c, list, S) ==
    /\ Range(list) = S
    /\ Len(list) = Cardinality(S)
    /\ \A i, j \in DOMAIN list :
          (i < j /\ inShadowTree(c, list[i]) = inShadowTree(c, list[j]))
             => list[i] < list[j]

\* The case of C1: distinct singular names, and one plural name on M >= 1
\* elements.
C1Case(c) ==
    /\ connected[c]
    /\ thrown = NoError
    /\ \A m, n \in singularOwn(c) : refNameOf(m) = refNameOf(n) => m = n
    /\ pluralOwn(c) # {}
    /\ \A m, n \in pluralOwn(c) : refNameOf(m) = refNameOf(n)

C1Result(c) ==
    LET x == pluralBase(CHOOSE n \in pluralOwn(c) : TRUE)
    IN  /\ Cardinality(DOMAIN refs[c]) = Cardinality(singularOwn(c)) + 1
        /\ \A n \in singularOwn(c) :
              /\ refNameOf(n) \in DOMAIN refs[c]
              /\ refs[c][refNameOf(n)] = [isArray |-> FALSE, els |-> <<n>>]
        /\ x \in DOMAIN refs[c]
        /\ refs[c][x].isArray
        /\ listsInDocumentOrder(c, refs[c][x].els, pluralOwn(c))

\* No singular ref of c is named like the base of its plural refs.
noNameClash(c) ==
    \A m \in singularOwn(c), n \in pluralOwn(c) : refNameOf(m) # pluralBase(n)

C2OwnRefsOnly ==
    \A E \in elementsIn(refs[Host]) :
        /\ Len(refAttr[E]) = 1
        /\ nearestComponentAbove(E) = Host

C2Witness ==
    /\ connected[Host]
    /\ refs[Host] # <<>>
    /\ \E E \in Nodes :
          /\ Len(refAttr[E]) = 1
          /\ inSubtree(Host, E)
          /\ nearestComponentAbove(E) # Host
          /\ E \notin elementsIn(refs[Host])
    /\ \E E \in elementsIn(refs[Host]) : inShadow[E]

\* A step in which connectedCallback of c ran and threw.
connectThrew(c) == ~connected[c] /\ connected'[c] /\ thrown' # NoError

\* c requires a ref that no element of its own subtree carries.
requiredRefAbsent(c) ==
    \E i \in DOMAIN requiredRefs[c] :
        \A n \in ownRefElements(c) : refNameOf(n) # requiredRefs[c][i]

wholeMapping(c) ==
    /\ DOMAIN refs[c] = { refPath(refNameOf(n)) : n \in ownRefElements(c) }
    /\ \A key \in DOMAIN refs[c] :
          \A n \in Range(refs[c][key].els) :
              n \in ownRefElements(c) /\ refPath(refNameOf(n)) = key
    /\ \A i \in DOMAIN requiredRefs[c] : requiredRefs[c][i] \in DOMAIN refs[c]

\* C4: a run of #updateRefs replaces refs by a whole fresh mapping, or
\* throws and leaves refs as they were; refs never hold a partial mapping.
C4AllOrNothing ==
    [][\A c \in Nodes :
          /\ refs'[c] # refs[c] => (thrown' = NoError /\ wholeMapping(c)')
          /\ thrown' # NoError => refs' = refs
          /\ (\A i \in DOMAIN requiredRefs[c] :
                 refs'[c] = <<>> \/ requiredRefs[c][i] \in DOMAIN refs'[c])]_vars

C4Witness ==
    /\ thrown = MissingRefError(<<"x">>, Host)
    /\ << <<"a">> >> \in Range(refAttr)
    /\ refs[Host] # <<>>
    /\ <<"a">> \notin DOMAIN refs[Host]

\* A step in which an event was dispatched and left a trace.
DispatchStep == <<event, calls, logged>>' # <<event, calls, logged>>

\* The nearest component enclosing element n: n itself when it is one.
nearestComponentOrSelf(n) ==
    IF componentLike(n) THEN n ELSE nearestComponentAbove(n)

\* C5: however components connect and disconnect, the document holds at
\* most one listener per event kind (one once the registry is initialized),
\* and one event invokes a method at most once.
C5SingleRegistration ==
    /\ \A k \in EventKinds : listeners[k] = IF initialized THEN 1 ELSE 0
    /\ Len(calls) <= 1

C5Witness ==
    /\ Cardinality({ c \in Nodes : connected[c] }) >= 2
    /\ \E c \in Nodes : ~connected[c] /\ idle[c] > 0
    /\ Len(calls) = 1

\* The click of C6: the originating element carries on:click="/save" and
\* the registry is initialized.
C6Case ==
    /\ DispatchStep
    /\ initialized
    /\ event'.type = "click"
    /\ onAttr[event'.path]["click"] = SaveAttr

SetQtyAmount2 == <<"/">> \o setQty \o <<"?">> \o amount \o <<"=", "2">>

C7SetQty ==
    [][(DispatchStep /\ initialized /\ onAttr[Host]["click"] = <<SetQtyAmount2>>
           /\ event'.type = "click" /\ event'.path = Host)
          => /\ Len(calls') = 1
             /\ calls'[1].instance = Host
             /\ calls'[1].method = setQty
             /\ Len(calls'[1].args) = 2
             /\ DOMAIN calls'[1].args[1] = {"type", "value"}
             /\ calls'[1].args[1].type = "object"
             /\ DOMAIN calls'[1].args[1].value = {amount}
             /\ calls'[1].args[1].value[amount].type = "number"
             /\ calls'[1].args[1].value[amount].value = 2
             /\ calls'[1].args[2] = [proxy |-> FALSE, event |-> event', element |-> Null]]_vars

C7Witness ==
    /\ onAttr[Host]["click"] = <<SetQtyAmount2>>
    /\ Len(calls) = 1
    /\ calls[1].method = setQty
    /\ Len(calls[1].args) = 2
    /\ calls[1].args[1].value[amount].value = 2

\* How a value text is to be coerced, text by text.
Coerced(text) ==
    CASE text = <<"t", "r", "u", "e">> -> [type |-> "boolean", value |-> TRUE]
      [] text = <<"f", "a", "l", "s", "e">> -> [type |-> "boolean", value |-> FALSE]
      [] text = <<"2">> -> [type |-> "number", value |-> 2]
      [] text = <<"2", "0">> -> [type |-> "number", value |-> 20]
      [] OTHER -> [type |-> "string", value |-> text]

\* The object a query string stands for: an entry per key, holding the
\* coerced value of the key's last pair.
expectedObject(pairs) ==
    LET lastOf(key) ==
            CHOOSE i \in DOMAIN pairs :
                /\ pairs[i][1] = key
                /\ \A j \in DOMAIN pairs : pairs[j][1] = key => j <= i
    IN  [type |-> "object",
         value |-> [key \in { pairs[i][1] : i \in DOMAIN pairs } |->
                      Coerced(pairs[lastOf(key)][2])]]

\* Data value got is the value wanted: the same type, and the same value of
\* that type; an object has the same keys, each holding the value wanted.
sameValue(got, wanted) ==
    /\ got.type = wanted.type
    /\ IF wanted.type = "object"
       THEN /\ DOMAIN got.value = DOMAIN wanted.value
            /\ \A key \in DOMAIN wanted.value :
                   /\ got.value[key].type = wanted.value[key].type
                   /\ got.value[key].value = wanted.value[key].value
       ELSE got.value = wanted.value

\* The binding is of the form [selector]/method[?data|/data], its data
\* segment, when there is one, not empty.
ofTheForm(b) ==
    /\ b.data = "query" => b.pairs # <<>>
    /\ b.data = "scalar" => b.scalar # <<>>

\* C8: the data handed to the method is the object of the coerced query
\* values after `?`, the coerced scalar after `/`, and no argument when the
\* value has no data segment.
C8DataCoercion ==
    [][(DispatchStep /\ initialized /\ binding # NoBinding /\ ofTheForm(binding))
          => /\ Len(calls') = 1
             /\ calls'[1].method = binding.method
             /\ LET args == calls'[1].args
                IN  CASE binding.data = "query" ->
                            Len(args) = 2 /\ sameValue(args[1], expectedObject(binding.pairs))
                      [] binding.data = "scalar" ->
                            Len(args) = 2 /\ sameValue(args[1], Coerced(binding.scalar))
                      [] OTHER -> Len(args) = 1 /\ args[1].event = event']_vars

C8Witness ==
    /\ binding.data = "query"
    /\ Len(binding.pairs) = 2
    /\ binding.pairs[1] = <<amount, <<>> >>
    /\ binding.pairs[2] = << <<"k">>, <<"f", "a", "l", "s", "e">> >>
    /\ binding.selector = <<"#", "1">>
    /\ Len(calls) = 1
    /\ calls[1].args[1].value[amount] = [type |-> "string", value |-> <<>>]
    /\ calls[1].args[1].value[<<"k">>] = [type |-> "boolean", value |-> FALSE]

\* C9: an error thrown by the invoked method is caught in the listener and
\* never leaves it; the listeners stay attached, and a later event reaches
\* its handler as if nothing had failed.
C9Isolation ==
    [][/\ \A k \in EventKinds : listeners'[k] >= listeners[k]
       /\ DispatchStep =>
             /\ thrown' = NoError
             /\ initialized =>
                   /\ Len(calls') = 1
                   /\ calls'[1].instance = event'.path
                   /\ calls'[1].method = save]_vars

C9Witness ==
    /\ logged # <<>>
    /\ thrown = NoError
    /\ Len(calls) = 1
    /\ \A k \in EventKinds : listeners[k] = 1

\* The element matched for an event: its originating element when that
\* carries the attribute, else (a bubbling event) the nearest element above
\* it in the same node tree that does.
matchedElement(ev) ==
    LET sameTree(a) ==
            \A b \in ancestorsOrSelf(parent, ev.path) : b > a => ~inShadow[b]
        carrying == { a \in ancestorsOrSelf(parent, ev.path) :
                        /\ hasAttribute(a, ev.type)
                        /\ sameTree(a)
                        /\ a # ev.path => ev.bubbles }
    IN  IF carrying = {} THEN Null
        ELSE CHOOSE a \in carrying : \A b \in carrying : b <= a

\* C10: when the matched element differs from the event's target, the
\* method is handed a wrapper whose target is the matched element and whose
\* other properties read as on the event (methods bound to it); else it is
\* handed the event itself.
C10Wrapper ==
    [][DispatchStep =>
          \A i \in DOMAIN calls' :
              LET handed == calls'[i].args[Len(calls'[i].args)]
                  matched == matchedElement(event')
              IN  IF matched # event'.target
                  THEN /\ handed.proxy
                       /\ get(handed, "target") = matched
                       /\ get(handed, "type") = event'.type
                       /\ get(handed, "bubbles") = event'.bubbles
                       /\ get(handed, "preventDefault") =
                             [function |-> "preventDefault", this |-> "event"]
                  ELSE /\ ~handed.proxy
                       /\ handed.event = event']_vars

C10Witness ==
    /\ Len(calls) = 1
    /\ calls[1].args[1].proxy
    /\ calls[1].args[1].element # event.path
    /\ calls[1].args[1].element # event.target
    /\ IsShadowRoot(treeRoot(event.path))

\* C11: for pointerenter and pointerleave a method is invoked only when the
\* event's originating element itself carries the on: attribute of the
\* kind - then on behalf of that element - and never because an element
\* above it carries it.
C11DirectTargetOnly ==
    [][(DispatchStep /\ event'.type \in Range(expensiveEvents)) =>
          /\ calls' # <<>> => hasAttribute(event'.path, event'.type)
          /\ \A i \in DOMAIN calls' :
                 get(calls'[i].args[Len(calls'[i].args)], "target") = event'.path]_vars

C11Witness ==
    /\ initialized
    /\ listeners["pointerenter"] = 1
    /\ event.type = "pointerenter"
    /\ event.bubbles
    /\ event.path # Null
    /\ ~hasAttribute(event.path, "pointerenter")
    /\ \E a \in ancestorsOrSelf(parent, event.path) :
           /\ hasAttribute(a, "pointerenter")
           /\ ~inShadow[event.path]
           /\ a = parent[event.path]
    /\ calls = <<>>

\* The width the first k items take side by side.
RECURSIVE widthOfItems(_)
widthOfItems(k) == IF k = 0 THEN 0 ELSE widthOfItems(k - 1) + itemWidth[k]

\* The container is wide enough for all the items on one row.
allItemsFit == widthOfItems(NumItems) <= containerWidth

\* The items in the overflow slot.
inOverflowSlot == { i \in Items : slot[i] = OverflowSlot }

\* Nothing overflows and nothing tells of overflow.
nothingOverflows ==
    /\ inOverflowSlot = {}
    /\ overflowCount = <<0>>
    /\ moreHidden
    /\ placeholder.hidden

\* C12: after a reflow the visible and the overflowing elements are
\* disjoint, together they are all the items, and the items are in the
\* default and the overflow slot accordingly; after a reset every item is
\* in the default slot.
C12Partition ==
    /\ lastOp = "reflow" =>
          /\ Range(visibleElements) \cap Range(overflowingElements) = {}
          /\ Range(visibleElements) \cup Range(overflowingElements) = Items
          /\ Len(visibleElements) + Len(overflowingElements) = NumItems
          /\ \A i \in DOMAIN overflowingElements, j \in DOMAIN overflowingElements :
                i < j => overflowingElements[i] < overflowingElements[j]
          /\ \A i \in Items :
                /\ i \in Range(visibleElements) <=> slot[i] = DefaultSlot
                /\ i \in Range(overflowingElements) <=> slot[i] = OverflowSlot
    /\ lastOp = "showAll" => \A i \in Items : slot[i] = DefaultSlot

C12Witness ==
    /\ lastOp = "reflow"
    /\ lastHint = NumItems
    /\ Len(visibleElements) = 2
    /\ Len(overflowingElements) = NumItems - 2
    /\ slot[NumItems] = DefaultSlot
    /\ slot[2] = OverflowSlot

\* C13 as stated: after any reflow that runs while the container is wide
\* enough for all the items, nothing overflows.
C13Original == (lastOp = "reflow" /\ allItemsFit) => nothingOverflows

\* C13, amended: nothing overflows after a reflow without a hint that runs
\* while the container is wide enough for all the items, nor after a reflow
\* with a hint that runs while it is wide enough for all the items and the
\* "more" indicator.
C13Amended ==
    (/\ lastOp = "reflow"
     /\ IF lastHint = NoItem THEN allItemsFit
        ELSE widthOfItems(NumItems) + MoreWidth <= containerWidth)
    => nothingOverflows

C13Witness ==
    /\ lastOp = "reflow"
    /\ lastHint # NoItem
    /\ widthOfItems(NumItems) + MoreWidth = containerWidth
    /\ \E i \in Items : itemWidth[i] = 2
    /\ nothingOverflows
    /\ visibleElements[NumItems] = lastHint
    /\ lastHint # NumItems

\* The longest prefix of the items that fits on one row after the "more"
\* indicator.
longestWithMore ==
    LET fitting == { k \in 0..NumItems :
                       MoreWidth + widthOfItems(k) <= containerWidth }
    IN  IF fitting = {} THEN 0
        ELSE CHOOSE k \in fitting : \A j \in fitting : j <= k

\* C14: after a reflow without a hint in a container too narrow for all the
\* items, the visible elements are the longest prefix of the items that
\* fits on the first row with the "more" indicator, and the rest, in order,
\* is in the overflow slot.
C14TrailingOverflow ==
    (lastOp = "reflow" /\ lastHint = NoItem /\ ~allItemsFit) =>
        /\ visibleElements = [i \in 1..longestWithMore |-> i]
        /\ overflowingElements =
              [i \in 1..(NumItems - longestWithMore) |-> longestWithMore + i]
        /\ inOverflowSlot = (longestWithMore + 1)..NumItems
        /\ ~moreHidden

C14Witness ==
    /\ lastOp = "reflow"
    /\ lastHint = NoItem
    /\ ~allItemsFit
    /\ itemWidth[1] = 2
    /\ MoreWidth + widthOfItems(2) = containerWidth
    /\ visibleElements = <<1, 2>>
    /\ inOverflowSlot = 3..NumItems

\* C15 as stated: after a reflow asked to keep item E visible, E is the last
\* of the visible elements and not in the overflow slot.
C15Original ==
    (lastOp = "reflow" /\ lastHint # NoItem) =>
        /\ visibleElements # <<>>
        /\ visibleElements[Len(visibleElements)] = lastHint
        /\ slot[lastHint] = DefaultSlot

\* C16 as stated, for minimum-items="2": a reflow that ends with 1 visible
\* item sets minimum-reached and dispatches minimumReached true; a reflow
\* after it (here: the next reflow after it) that ends with 2 or more visible
\* items removes the attribute and dispatches minimumReached false.
C16Original ==
    [][(lastOp' = "reflow" /\ minimumItems = <<2>>) =>
          /\ Len(visibleElements') = 1 =>
                minimumReached' /\ dispatched' = <<TRUE>>
          /\ (/\ Len(visibleElements') >= 2
              /\ minimumReached /\ Len(visibleElements) = 1) =>
                ~minimumReached' /\ dispatched' = <<FALSE>>]_vars

\* C17 as stated: with minimum-items k, after a reflow the list is in the
\* minimum-reached state exactly when at most k items are visible.
C17Original ==
    (lastOp = "reflow" /\ minimumItems # <<>>) =>
        (minimumReached <=> Len(visibleElements) <= minimumItems[1])

\* C18 as stated: once showAll() was called, whatever resizes follow, no
\* item is in the overflow slot and the placeholder is not displayed and
\* has width 0.
C18Original ==
    disabled = <<"true">> =>
        /\ inOverflowSlot = {}
        /\ placeholder.display = "none"
        /\ placeholder.width = <<0>>

\* C19: at most one reflow callback is outstanding, outstanding exactly
\* while #scheduled is set; a resize or a mutation reported meanwhile
\* schedules nothing and moves nothing, and the callback runs one reflow.
C19Coalesced ==
    [][/\ pending' <= 1
       /\ scheduled' <=> pending' = 1
       /\ lastOp' = "returned" =>
             UNCHANGED <<scheduled, pending, lastDimensions, slotVars>>
       /\ (scheduled /\ pending' < pending) => ~scheduled' /\ lastOp' = "reflow"]_vars

C19Witness ==
    /\ scheduled
    /\ pending = 1
    /\ resizeObserver.initialized
    /\ lastDimensions.width \notin {containerWidth, 0}
    /\ containerWidth # 0
    /\ lastOp = "returned"

\* C20 as stated: fn runs only when `wait` has passed since the last call,
\* once for that call and with its arguments; cancel() is there to call, and
\* after it the pending call does not run fn.
C20Original ==
    [][/\ ~typeError'
       /\ Len(ran') > Len(ran) =>
             /\ lastCall # <<>>
             /\ ~lastCall[1].ran
             /\ ~cancelled
             /\ ran'[Len(ran')].at >= lastCall[1].at + Wait
             /\ ran'[Len(ran')].args = lastCall[1].args]_vars

\* The time of the last run of fn, -1 when it never ran.
lastRun == IF ran = <<>> THEN -1 ELSE ran[Len(ran)].at

\* C21 as stated: any two runs of fn are at least `delay` apart, and a call
\* of the throttled function made when fn did not run in the `delay`
\* milliseconds before it, the first call included, runs fn at once.
C21Original ==
    /\ \A i \in 1..(Len(ran) - 1) : ran[i + 1].at - ran[i].at >= Wait
    /\ (/\ ~cancelled
        /\ attempt # <<>>
        /\ attempt[1].at = now
        /\ ~attempt[1].executed)
       => (ran # <<>> /\ now - lastRun < Wait)

\* The entries of componentFiles that end with '.js', in list order.
jsEntries ==
    LET all == [i \in 1..Len(componentFiles) |-> i]
    IN  SelectSeq(all, LAMBDA i : endsWith(componentFiles[i], DotJs))

\* The script elements run r created, in order of creation.
scriptsOf(r) == SelectSeq(scripts, LAMBDA script : script.run = r)

\* Run r created scripts for the '.js' entries only, in list order, each
\* after the one before it had loaded.
inListOrder(r) ==
    /\ Len(scriptsOf(r)) <= Len(jsEntries)
    /\ \A i \in DOMAIN scriptsOf(r) :
          /\ scriptsOf(r)[i].entry = jsEntries[i]
          /\ i < Len(scriptsOf(r)) => scriptsOf(r)[i].status = "loaded"

\* Run r created a script for every '.js' entry, and each has loaded.
allLoaded(r) ==
    /\ Len(scriptsOf(r)) = Len(jsEntries)
    /\ \A i \in DOMAIN scriptsOf(r) : scriptsOf(r)[i].status = "loaded"

\* C22 as stated: a run creates the scripts of the '.js' entries in list
\* order, each after the one before it has loaded, none for the other
\* entries, and dispatches vessel-theme-loaded exactly once, after every
\* '.js' entry has loaded.
C22Original ==
    \A r \in Runs :
        /\ inListOrder(r)
        /\ themeLoaded[r] <= 1
        /\ themeLoaded[r] = 1 => allLoaded(r)
        /\ loads[r].state \in {"done", "failed"} => themeLoaded[r] = 1

\* C22, amended: as above, but the event is dispatched exactly once by a
\* run in which every '.js' entry loads, when the last has loaded, and not
\* at all by a run in which a script fails to load.
C22Amended ==
    \A r \in Runs :
        /\ inListOrder(r)
        /\ themeLoaded[r] <= 1
        /\ themeLoaded[r] = 1 => allLoaded(r)
        /\ loads[r].state = "done" <=> themeLoaded[r] = 1
        /\ loads[r].state = "failed" => themeLoaded[r] = 0

C22Witness ==
    /\ Len(componentFiles) = 3
    /\ ~endsWith(componentFiles[2], DotJs)
    /\ Len(jsEntries) = 2
    /\ loads[1].state = "done"
    /\ themeLoaded[1] = 1
    /\ allLoaded(1)
    /\ loads[2].state = "failed"
    /\ themeLoaded[2] = 0

\* The nearest component above element n (Null: none, as for an element
\* that is in no tree).
RECURSIVE ownerOf(_)
ownerOf(n) ==
    IF parent[n] \notin Nodes THEN Null
    ELSE IF componentLike(parent[n]) THEN parent[n]
    ELSE ownerOf(parent[n])

\* n is an element of c's own subtree: below c, with no component between.
ownsNode(c, n) == below(parent, c, n) /\ ownerOf(n) = c

\* The record tells of a change in c's own subtree: of the ref attribute of
\* one of its elements, or of the children of c or of one of its elements
\* that is no component.
concernsOwn(c, m) ==
    IF m.type = "attributes" THEN ownsNode(c, m.target)
    ELSE \/ m.target = c
         \/ ownsNode(c, m.target) /\ ~componentLike(m.target)

\* The mapping is what a scan of the page as it is finds for c: a key for
\* each ref name its own elements carry, naming one of them that carries
\* it, and no other key.
current(c, mapping) ==
    LET carrying == { n \in Nodes : ownsNode(c, n) /\ Len(refAttr[n]) = 1 }
    IN  /\ DOMAIN mapping = { refAttr[n][1] : n \in carrying }
        /\ \A key \in DOMAIN mapping :
              \A n \in Range(mapping[key].els) :
                  n \in carrying /\ refAttr[n][1] = key

\* The observer's callback runs for the host.
callbackStep ==
    /\ records[Host] # {}
    /\ records'[Host] = {}
    /\ observing'[Host] # {}

\* C23 as stated: when the callback gets a record that tells of an element
\* added to or removed from the host's own subtree, or of a ref attribute
\* changed in it, refs is afterwards what a scan of the page finds, naming
\* no removed element; when all its records tell of a nested component's
\* subtree, refs is left as it is.
C23Original ==
    [][callbackStep =>
          IF \E m \in records[Host] : concernsOwn(Host, m)
          THEN current(Host, refs'[Host])
          ELSE refs' = refs /\ thrown' = NoError]_vars

\* C24 as stated: from disconnectedCallback until the host is connected
\* again its observer observes nothing and has no record queued, and no
\* step recomputes its refs.
C24Original ==
    [][/\ ~connected'[Host] => observing'[Host] = {} /\ records'[Host] = {}
       /\ (~connected[Host] /\ ~connected'[Host]) => refs'[Host] = refs[Host]]_vars

\* C25 as stated: once the list is detached neither of its observers
\* observes it, and a resize or a child-list mutation reported to it
\* schedules no reflow.
C25Original ==
    [][stage' = "removed" =>
          /\ ~resizeObserver'.observing
          /\ ~mutationObserving'
          /\ (stage = "removed" /\ lastOp' \in {"notified", "returned"})
                => UNCHANGED <<scheduled, pending>>]_vars

\* C26 as stated: while the list is disabled, as showAll() leaves it, no
\* step is a reflow, whatever asks for it.
C26Original ==
    [][(disabled = <<"true">> /\ disabled' = <<"true">>) => lastOp' # "reflow"]_vars

\* A step in which the ResizeNotifier hands #handleChange an entry: the
\* element's width changes and lastOp records the call.
resizeNotified ==
    /\ containerWidth' # containerWidth
    /\ lastOp' \in {"notified", "returned"}

\* The entry's rounded size has a zero dimension or is the recorded size.
skipped(width, height) ==
    \/ width = 0
    \/ height = 0
    \/ (width = lastDimensions.width /\ height = lastDimensions.height)

\* C27: a resize notification schedules a reflow only for a size without a
\* zero dimension that differs from the recorded one; for any other size it
\* leaves the recorded dimensions and the scheduled flag as they are.
C27Resize ==
    [][resizeNotified =>
          /\ (~scheduled /\ scheduled') => ~skipped(containerWidth', RowHeight)
          /\ skipped(containerWidth', RowHeight)
                => UNCHANGED <<scheduled, pending, lastDimensions>>]_vars

\* A resize back to the recorded size was notified and scheduled nothing.
C27Witness ==
    /\ lastOp = "notified"
    /\ ~scheduled
    /\ containerWidth # 0
    /\ containerWidth = lastDimensions.width

\* C28 as stated: the notifier keeps from #handleChange the first entry
\* delivered after the element is observed, and #handleChange is called for
\* every resize of the element while it is observed.
C28Original ==
    [][/\ (/\ resizeObserver.observing
           /\ ~resizeObserver.initialized
           /\ resizeObserver'.initialized)
              => UNCHANGED <<scheduled, pending, lastDimensions>>
       /\ (resizeObserver.observing /\ containerWidth' # containerWidth)
              => lastOp' \in {"notified", "returned"}]_vars

\* The nearest element above the event's originating element, in its node
\* tree, that carries the on: attribute of the event's kind (Null: none).
carrierAbove(ev) ==
    closest(ev.path, { n \in Nodes : hasAttribute(n, ev.type) })

\* The registry answered the event for the given element alone.
invokedFor(made, ev, element) ==
    /\ Len(made) = 1
    /\ made[1].instance = element
    /\ get(made[1].args[1], "target") = element

\* A step in which the initialized registry takes an event whose originating
\* element lacks the on: attribute of its kind.
unattributedStep ==
    /\ initialized
    /\ DispatchStep
    /\ ~hasAttribute(event'.path, event'.type)

\* C29 as stated: for an event whose originating element lacks the
\* attribute, the nearest element above that carries it answers if and
\* only if the event bubbles or is a focus or blur; otherwise no method is
\* invoked.
C29Original ==
    [][unattributedStep =>
          IF (event'.bubbles \/ event'.type \in shouldBubble)
                /\ carrierAbove(event') # Null
          THEN invokedFor(calls', event', carrierAbove(event'))
          ELSE calls' = <<>>]_vars

\* C29, amended: the same for every kind but pointerenter and pointerleave,
\* for which no method is invoked, bubbling or not.
C29Amended ==
    [][unattributedStep =>
          IF /\ event'.type \notin Range(expensiveEvents)
             /\ (event'.bubbles \/ event'.type \in shouldBubble)
             /\ carrierAbove(event') # Null
          THEN invokedFor(calls', event', carrierAbove(event'))
          ELSE calls' = <<>>]_vars

\* A focus that does not bubble reached the method of the element above
\* its originating element.
C29Witness ==
    /\ initialized
    /\ event.type = "focus"
    /\ ~event.bubbles
    /\ event.path # Null
    /\ ~hasAttribute(event.path, "focus")
    /\ carrierAbove(event) # Null
    /\ invokedFor(calls, event, carrierAbove(event))

\* The element a selector names for the element the event matched: by id in
\* the document tree, by tag among the element and its ancestors in its
\* node tree, or - no selector - the nearest enclosing component.
namedInstance(element, selector) ==
    LET byId == { n \in Nodes : treeRoot(n) = Doc /\ idOf(n) = Tail(selector) }
        byTag == { a \in ancestorsOrSelf(parent, element) :
                     treeRoot(a) = treeRoot(element) /\ tagName(a) = selector }
    IN  IF selector = <<>> THEN nearestComponentOrSelf(element)
        ELSE IF Head(selector) = "#"
             THEN IF byId = {} THEN Null ELSE CHOOSE n \in byId : TRUE
        ELSE IF byTag = {} THEN Null
        ELSE CHOOSE a \in byTag : \A b \in byTag : b <= a

\* The data argument the page's binding stands for.
namedData ==
    [type |-> "object",
     value |-> [k \in {amount} |-> [type |-> "number", value |-> 2]]]

\* C30: the instance is the element the selector names - by id anywhere in
\* the document, by selector the nearest of the matched element and its
\* ancestors, without selector the nearest enclosing component; the named
\* method is invoked on it, the parsed data (if any) first and the event
\* after it, if and only if it is a Component and the name is that of a
\* function; otherwise nothing is invoked, and no error is raised.
C30Target ==
    [][(initialized /\ DispatchStep /\ getElement(event') # Null) =>
          LET element == getElement(event')
              instance == namedInstance(element, binding.selector)
              handed == calls'[1].args[Len(calls'[1].args)]
          IN  /\ thrown' = NoError
              /\ IF /\ instance # Null
                    /\ kind[instance] = "Component"
                    /\ binding.method \in Methods
                 THEN /\ Len(calls') = 1
                      /\ calls'[1].instance = instance
                      /\ calls'[1].method = binding.method
                      /\ handed.event = event'
                      /\ IF binding.data = "none"
                         THEN Len(calls'[1].args) = 1
                         ELSE /\ Len(calls'[1].args) = 2
                              /\ calls'[1].args[1] = namedData
                 ELSE calls' = <<>>]_vars

\* A click on a plain element whose binding names, by selector, the
\* component above it: setQty ran on that component, the data first.
C30Witness ==
    /\ initialized
    /\ binding.selector = <<"c">>
    /\ binding.data = "query"
    /\ event.path # Null
    /\ kind[event.path] = "Plain"
    /\ hasAttribute(event.path, "click")
    /\ Len(calls) = 1
    /\ calls[1].instance # event.path
    /\ calls[1].instance = namedInstance(event.path, binding.selector)
    /\ calls[1].method = setQty
    /\ Len(calls[1].args) = 2

\* The number of items in the overflow slot.
inOverflow == Cardinality({ i \in Items : slot[i] = OverflowSlot })

\* The placeholder is rendered: neither hidden nor display: none.
placeholderShown == ~placeholder.hidden /\ placeholder.display # "none"

\* C31 as stated: right after a reflow the --overflow-count property and
\* the overflow-count counter both hold the number of items in the overflow
\* slot, and the "more" indicator and the placeholder are shown exactly when
\* that number is above zero; right after a reset both counts are 0 and the
\* overflow slot is empty.
C31Original ==
    /\ lastOp = "reflow" =>
          /\ overflowCount = <<inOverflow>>
          /\ counterReset = <<inOverflow>>
          /\ ~moreHidden <=> inOverflow > 0
          /\ placeholderShown <=> inOverflow > 0
    /\ lastOp = "showAll" =>
          /\ overflowCount = <<0>>
          /\ counterReset = <<0>>
          /\ inOverflow = 0

\* A step in which #initialize ran: the element starts.
initializeStep == stage # "started" /\ stage' = "started"

\* C32: when the element has no shadow root, or a part of its template is
\* missing or of the wrong type, #initialize throws, and then no `reflow`
\* listener is added, no observer is attached and no reflow is run.
C32FailsFast ==
    [][(initializeStep /\ ~(listShadow' = "attached" /\ templateParts = "valid"))
          => /\ listThrown' \in {MissingShadowRoot, InvalidElementTypes}
             /\ listThrown' = MissingShadowRoot <=> listShadow' # "attached"
             /\ lastOp' # "reflow"
             /\ UNCHANGED <<reflowListeners, resizeObserver, mutationObserving,
                            slotVars, listRefs, lastDimensions>>]_vars

\* The element started on a template without one of its parts: the error,
\* and neither listener nor observer.
C32Witness ==
    /\ stage = "started"
    /\ listShadow = "attached"
    /\ templateParts = "missing"
    /\ listThrown = InvalidElementTypes
    /\ reflowListeners = 0
    /\ ~resizeObserver.observing
    /\ ~mutationObserving

\* The scripts of run r that failed to load.
failedOf(r) ==
    { k \in DOMAIN scripts : scripts[k].run = r /\ scripts[k].status = "failed" }

\* C33: a run in which a script fails to load stops at that script: it
\* created no script for a later entry and has none loading, it dispatched
\* no `vessel-theme-loaded`, and it ended in its catch clause.
C33StopsAtFailure ==
    \A r \in Runs :
        /\ failedOf(r) # {} <=> loads[r].state = "failed"
        /\ \A k \in failedOf(r) :
              /\ themeLoaded[r] = 0
              /\ \A j \in DOMAIN scripts :
                     (scripts[j].run = r /\ j # k)
                        => /\ scripts[j].entry < scripts[k].entry
                           /\ scripts[j].status = "loaded"

\* A run failed at a script with another '.js' entry after it, while the
\* other run went through.
C33Witness ==
    \E r \in Runs, k \in DOMAIN scripts :
        /\ k \in failedOf(r)
        /\ \E i \in (scripts[k].entry + 1)..Len(componentFiles) :
               endsWith(componentFiles[i], DotJs)
        /\ \E q \in Runs \ {r} : loads[q].state = "done"

\* The arrays returned for pages 1..n, one after the other.
RECURSIVE pagesJoined(_)
pagesJoined(n) == IF n = 0 THEN <<>> ELSE pagesJoined(n - 1) \o pageItems[n]

\* Every page 1..total has been asked for: the pages partition allItems,
\* none longer than perPage items and all but the last of perPage items.
partitions(total, perPage) ==
    /\ pagesJoined(total) = allItems
    /\ \A p \in 1..total : Len(pageItems[p]) * Unit <= perPage
    /\ \A p \in 1..(total - 1) : Len(pageItems[p]) * Unit = perPage

allPagesAsked ==
    /\ totalPages # <<>>
    /\ DOMAIN pageItems = 1..totalPages[1]

\* C34 as stated: for any itemsPerPage >= 1, the pages 1..getTotalPages
\* partition the items, each of at most itemsPerPage items and each but the
\* last of exactly itemsPerPage.
C34Original == allPagesAsked => partitions(totalPages[1], itemsPerPage)

\* C34, amended: the same for a whole number itemsPerPage >= 1.
C34Amended ==
    (allPagesAsked /\ itemsPerPage % Unit = 0)
        => partitions(totalPages[1], itemsPerPage)

\* Four items in pages of three: two pages, the last of one item.
C34Witness ==
    /\ allPagesAsked
    /\ itemsPerPage = 3 * Unit
    /\ Len(allItems) = 4
    /\ totalPages = <<2>>
    /\ Len(pageItems[2]) = 1

\* C35: #scheduled, once a resize or mutation notification has set it, is
\* cleared again - the scheduler running what it was given - and no
\* execution keeps it set for ever.
C35FlagCleared == scheduled ~> ~scheduled

\* A notification has set #scheduled and its callback is outstanding.
C35Witness ==
    /\ scheduled
    /\ pending = 1
    /\ lastOp = "notified"

\* A step in which an initialized list receives a `reflow` event: the one
\* step that names an element to keep visible.
reflowEventStep == listRefs /\ lastHint' # NoItem

\* C36 as stated: a `reflow` event causes exactly one reflow, whatever
\* #scheduled is, also after the element was removed and attached again.
C36Original == [][reflowEventStep => (lastOp' = "reflow" /\ reflowsRun' = 1)]_vars

\* A step in which attributeChangedCallback ran for `disabled`: the one
\* step that writes the attribute, but for showAll().
attributeStep == disabled' # disabled \/ lastOp' = "reset"

\* C37 as stated: whenever the `disabled` attribute changes - before the
\* element connects, while its initialization is deferred or waits, or
\* after - #reset and #reflowItems run on populated refs only: no change of
\* the attribute runs them on an element #initialize has not completed on.
C37Original ==
    [][attributeStep => (listRefs /\ listThrown' # TypeError)]_vars

\* C38 as stated: after any openings of the quick view, a click on its
\* add-to-cart button sends exactly one POST, for the product the modal
\* shows - the one of the latest opening that loaded.
C38Original ==
    [][(castleOp' = "addToCart" /\ shown # NoProduct)
          => /\ Len(posts') = 1
             /\ posts'[1][1] = shown]_vars

\* C39 as stated: the body's overflow is 'hidden' exactly while the
\* quick-view modal or the newsletter popup is active.
C39Original == bodyOverflow = "hidden" <=> (modalActive \/ popupActive)

====
